---------------------------- MODULE Spec2Model ----------------------------
(***************************************************************************)
(* A model of great_expectations' SQL-backed computed-metrics store        *)
(* (computed_metrics/db/sqlalchemy_computed_metrics_store.py).             *)
(*                                                                         *)
(* Python values that may be None are tuples: <<>> is None and <<x>> is    *)
(* the value x.  A business object and a row of the table are records of   *)
(* the seventeen fields of ComputedMetric.                                 *)
(***************************************************************************)
EXTENDS Integers, Sequences, FiniteSets, TLC

VARIABLES
    db,          \* the committed rows of the computed-metrics table, in insertion order
    threads,     \* the callers of the store and the thread each of them runs on
    registry,    \* scoped_session's registry: does the thread have a session
    pending,     \* the rows the thread's session has added and not yet committed
    pc,          \* where the thread's store operation stands
    op,          \* the operation the thread runs and its arguments
    calls,       \* the calls the operation has made on the session, in order
    exc,         \* the exception that is propagating in the operation
    results,     \* the value the operation's body computed
    outcome,     \* how the operation ended: returned a value or raised
    db0,         \* the committed rows when the operation started
    tr_pc,       \* where a translation of a business object to a row and back stands
    business,    \* the business object that is translated
    model_obj,   \* the row object translated from it
    back,        \* the business object translated from the row object
    ctor_pc,     \* where the construction of a store stands
    ctor_args,   \* the arguments __init__ is called with
    caller_credentials, \* the caller's credentials dict, which __init__ is passed by reference
    store,       \* the attributes of the store object
    created_engines,    \* the engines sa.create_engine() has built, in order
    warnings,    \* the warnings logged
    ctor_error,  \* the exception __init__ raised
    key_file,    \* what loading the private key file at private_key_path gives
    sub_pc,      \* where the repeated substitution of a config tree stands
    sub_x,       \* the config tree that is substituted
    sub_vars,    \* the variables mapping it is substituted with
    sub_once,    \* substitute(x, vars)
    sub_twice,   \* substitute(substitute(x, vars), vars)
    ctx_pc,      \* where the data context stands: not made, ready, or failed to construct
    file_backed, \* is the context a DataContext (TRUE) or a ConfigOnlyDataContext
    yml,         \* the project config in great_expectations.yml
    variables_file,        \* the config variables file on disk
    project_config,        \* self._project_config, the raw project config
    datasources,           \* self._datasources
    stores,                \* self._stores
    validation_operators,  \* self.validation_operators
    instances,   \* how many component instances the factory has constructed
    as_given,    \* the component configs as loaded or as passed to add_*, by name
    last,        \* the last call on the context and how it ended
    frames,      \* the call each thread is making on the context, statement by statement
    history,     \* of the threads' calls: how many, did two overlap, instances built
    key_order,   \* the keys of the raw config's datasources dict, in the dict's order
    self_data_asset_name_delimiter, \* self._data_asset_name_delimiter, once it is set
    active_environment_name,        \* self.active_environment_name of a DataContext
    self_context_root_directory,    \* self._context_root_directory (the context_root_dir given)
    expectations_store,             \* the suites of the expectations store, by name
    suite_call                      \* the last call of an expectation-suite method

storeVars == <<db, threads, registry, pending, pc, op, calls, exc, results, outcome, db0>>

translateVars == <<tr_pc, business, model_obj, back>>

ctorVars == <<ctor_pc, ctor_args, caller_credentials, store, created_engines, warnings,
              ctor_error, key_file>>

substVars == <<sub_pc, sub_x, sub_vars, sub_once, sub_twice>>

contextVars == <<ctx_pc, file_backed, yml, variables_file, project_config, datasources,
                 stores, validation_operators, instances, as_given, last, frames,
                 history, key_order, self_data_asset_name_delimiter,
                 active_environment_name, self_context_root_directory,
                 expectations_store, suite_call>>

\* What no store operation changes.
otherVars == <<translateVars, ctorVars, substVars, contextVars>>

vars == <<storeVars, translateVars, ctorVars, substVars, contextVars>>

-----------------------------------------------------------------------------
(* Bounds and input domains *)

MaxTime == 2
MaxRows == 2

AllThreads == {"t1", "t2"}

None == <<>>
Some(x) == <<x>>
Opt(S) == {None} \cup {Some(x) : x \in S}

Times == 1..MaxTime

BatchIds == {"b1", "b2"}
MetricNames == {"m1"}
DomainIds == {"d1"}
ValueIds == {"v1"}

KeyFields == {"batch_id", "metric_name", "metric_domain_kwargs_id", "metric_value_kwargs_id"}

Merge(r1, r2) ==
    [f \in (DOMAIN r1) \cup (DOMAIN r2) |-> IF f \in DOMAIN r1 THEN r1[f] ELSE r2[f]]

\* The arguments of create() that default to None or False, and one choice of
\* values for them that sets the deleted flag without a deleted_at.
Profiles ==
    { [datasource_name |-> None, data_asset_name |-> None, batch_name |-> None,
       deleted_at |-> None, deleted |-> FALSE, archived_at |-> None,
       archived |-> FALSE, data_context_uuid |-> None, value |-> None,
       details |-> None],
      [datasource_name |-> Some("ds"), data_asset_name |-> Some("asset"),
       batch_name |-> None, deleted_at |-> None, deleted |-> TRUE,
       archived_at |-> Some(1), archived |-> FALSE,
       data_context_uuid |-> Some("uuid"), value |-> Some("val"),
       details |-> Some("det")] }


\* The keys create() is called with: create() takes the four key parts as
\* required str arguments.
Keys ==
    [batch_id : {Some(x) : x \in BatchIds},
     metric_name : {Some(x) : x \in MetricNames},
     metric_domain_kwargs_id : {Some(x) : x \in DomainIds},
     metric_value_kwargs_id : {Some(x) : x \in ValueIds}]

\* The optional arguments a create() call for key k is made with.
ProfileOf(k) ==
    CHOOSE p \in Profiles : p.deleted = (k.batch_id = Some("b2"))

\* The timestamps a create() call is made with: both omitted, one of them
\* given, or both given (created_at later than updated_at, which create() does
\* not check).
CreateTimes ==
    { [created_at |-> None, updated_at |-> None],
      [created_at |-> Some(2), updated_at |-> None],
      [created_at |-> None, updated_at |-> Some(1)],
      [created_at |-> Some(2), updated_at |-> Some(1)] }

\* The arguments of one create() call.
CreateArgs ==
    { Merge(Merge(k, ts), ProfileOf(k)) : k \in Keys, ts \in CreateTimes }

\* The key parts get() is called with: all four given, only batch_id given,
\* or none given.
GetKeys ==
    Keys
    \cup { [batch_id |-> Some(b), metric_name |-> None,
            metric_domain_kwargs_id |-> None, metric_value_kwargs_id |-> None] :
           b \in {"b1"} }
    \cup { [batch_id |-> None, metric_name |-> None,
            metric_domain_kwargs_id |-> None, metric_value_kwargs_id |-> None] }

\* The time bounds get() and list() are called with: each of the two omitted,
\* or the earliest or the latest of the times, the begin bound no later than
\* the end bound.
TimeBounds ==
    { bounds \in [datetime_begin : Opt({1, MaxTime}), datetime_end : Opt({1, MaxTime})] :
        \/ bounds.datetime_begin = None
        \/ bounds.datetime_end = None
        \/ bounds.datetime_begin[1] <= bounds.datetime_end[1] }

\* The arguments of one get() call: a full key with any time bounds, or a
\* partial key without time bounds.
GetArgs ==
    { [key |-> key, bounds |-> bounds] : key \in Keys, bounds \in TimeBounds }
    \cup { [key |-> key, bounds |-> [datetime_begin |-> None, datetime_end |-> None]] :
             key \in GetKeys \ Keys }

-----------------------------------------------------------------------------
(* The translation between the business object and the row *)

\* _translate_computed_metric_business_object_to_sqlalchemy_model: a new row
\* object gets every attribute of the business object but id, whose assignment
\* is commented out; id stays unset (None) on the new row object.
translate_computed_metric_business_object_to_sqlalchemy_model(computed_metric_business_object) ==
    [batch_id |-> computed_metric_business_object.batch_id,
     metric_name |-> computed_metric_business_object.metric_name,
     metric_domain_kwargs_id |-> computed_metric_business_object.metric_domain_kwargs_id,
     metric_value_kwargs_id |-> computed_metric_business_object.metric_value_kwargs_id,
     datasource_name |-> computed_metric_business_object.datasource_name,
     data_asset_name |-> computed_metric_business_object.data_asset_name,
     batch_name |-> computed_metric_business_object.batch_name,
     created_at |-> computed_metric_business_object.created_at,
     updated_at |-> computed_metric_business_object.updated_at,
     deleted_at |-> computed_metric_business_object.deleted_at,
     deleted |-> computed_metric_business_object.deleted,
     archived_at |-> computed_metric_business_object.archived_at,
     archived |-> computed_metric_business_object.archived,
     data_context_uuid |-> computed_metric_business_object.data_context_uuid,
     id |-> None,
     value |-> computed_metric_business_object.value,
     details |-> computed_metric_business_object.details]

\* _translate_sqlalchemy_computed_metric_model_to_business_object: every
\* attribute of the row, id included.
translate_sqlalchemy_computed_metric_model_to_business_object(sa_computed_metric_model_obj) ==
    [batch_id |-> sa_computed_metric_model_obj.batch_id,
     metric_name |-> sa_computed_metric_model_obj.metric_name,
     metric_domain_kwargs_id |-> sa_computed_metric_model_obj.metric_domain_kwargs_id,
     metric_value_kwargs_id |-> sa_computed_metric_model_obj.metric_value_kwargs_id,
     datasource_name |-> sa_computed_metric_model_obj.datasource_name,
     data_asset_name |-> sa_computed_metric_model_obj.data_asset_name,
     batch_name |-> sa_computed_metric_model_obj.batch_name,
     created_at |-> sa_computed_metric_model_obj.created_at,
     updated_at |-> sa_computed_metric_model_obj.updated_at,
     deleted_at |-> sa_computed_metric_model_obj.deleted_at,
     deleted |-> sa_computed_metric_model_obj.deleted,
     archived_at |-> sa_computed_metric_model_obj.archived_at,
     archived |-> sa_computed_metric_model_obj.archived,
     data_context_uuid |-> sa_computed_metric_model_obj.data_context_uuid,
     id |-> sa_computed_metric_model_obj.id,
     value |-> sa_computed_metric_model_obj.value,
     details |-> sa_computed_metric_model_obj.details]

-----------------------------------------------------------------------------
(* Queries *)

\* The sort without reverse=True: ascending.
RECURSIVE sorted_ascending(_)
sorted_ascending(s) ==
    IF s = <<>> THEN <<>>
    ELSE LET rest == sorted_ascending(Tail(s))
             x == Head(s)
             before == SelectSeq(rest, LAMBDA e : e.updated_at[1] < x.updated_at[1])
             after == SelectSeq(rest, LAMBDA e : e.updated_at[1] >= x.updated_at[1])
         IN  before \o <<x>> \o after

\* The sort by created_at instead of updated_at.
RECURSIVE sorted_by_created_at(_)
sorted_by_created_at(s) ==
    IF s = <<>> THEN <<>>
    ELSE LET rest == sorted_by_created_at(Tail(s))
             x == Head(s)
             before == SelectSeq(rest, LAMBDA e : e.created_at[1] > x.created_at[1])
             after == SelectSeq(rest, LAMBDA e : e.created_at[1] <= x.created_at[1])
         IN  before \o <<x>> \o after

\* sorted(results, key=lambda element: element.updated_at, reverse=True):
\* a stable sort, so elements with equal updated_at keep their order.
RECURSIVE sorted_reverse(_)
sorted_reverse(s) ==
    IF s = <<>> THEN <<>>
    ELSE LET rest == sorted_reverse(Tail(s))
             x == Head(s)
             \* x goes before the first element of rest whose key is not greater
             before == SelectSeq(rest, LAMBDA e : e.updated_at[1] > x.updated_at[1])
             after == SelectSeq(rest, LAMBDA e : e.updated_at[1] <= x.updated_at[1])
         IN  before \o <<x>> \o after

\* The time filter with the begin bound exclusive.
get_datetime_filtered_query_results_exclusive(all_rows, datetime_begin, datetime_end) ==
    LET filtered ==
            IF datetime_begin = None /\ datetime_end = None
            THEN all_rows
            ELSE IF datetime_begin # None /\ datetime_end = None
            THEN SelectSeq(all_rows, LAMBDA r : r.updated_at[1] > datetime_begin[1])
            ELSE IF datetime_begin = None /\ datetime_end # None
            THEN SelectSeq(all_rows, LAMBDA r : r.updated_at[1] <= datetime_end[1])
            ELSE SelectSeq(SelectSeq(all_rows,
                                     LAMBDA r : r.updated_at[1] > datetime_begin[1]),
                           LAMBDA r : r.updated_at[1] <= datetime_end[1])
        sorted_results == sorted_reverse(filtered)
    IN  [i \in 1..Len(sorted_results) |->
            translate_sqlalchemy_computed_metric_model_to_business_object(sorted_results[i])]

\* _get_datetime_filtered_query_results; all_rows is query_object's rows in the
\* order the database returns them.
get_datetime_filtered_query_results(all_rows, datetime_begin, datetime_end) ==
    LET filtered ==
            IF datetime_begin = None /\ datetime_end = None
            THEN all_rows
            ELSE IF datetime_begin # None /\ datetime_end = None
            THEN SelectSeq(all_rows, LAMBDA r : r.updated_at[1] >= datetime_begin[1])
            ELSE IF datetime_begin = None /\ datetime_end # None
            THEN SelectSeq(all_rows, LAMBDA r : r.updated_at[1] <= datetime_end[1])
            ELSE IF datetime_begin # None /\ datetime_end # None
            THEN SelectSeq(SelectSeq(all_rows,
                                     LAMBDA r : r.updated_at[1] >= datetime_begin[1]),
                           LAMBDA r : r.updated_at[1] <= datetime_end[1])
            ELSE <<>>
        sorted_results == sorted_reverse(filtered)
    IN  [i \in 1..Len(sorted_results) |->
            translate_sqlalchemy_computed_metric_model_to_business_object(sorted_results[i])]

\* The conjunction get() filters by: column == key part for all four key
\* parts.  SQLAlchemy renders column == None as column IS NULL, which on
\* tuples is the same test: a NULL column is None.
conditions(filtering_criteria, r) ==
    \A key_part_name \in KeyFields : r[key_part_name] = filtering_criteria[key_part_name]

\* The orders in which the database may return the rows of a query that has no
\* ORDER BY clause.
Orderings(rows) ==
    { [i \in 1..Len(rows) |-> rows[f[i]]] : f \in Permutations(1..Len(rows)) }

-----------------------------------------------------------------------------
(* The store's operations, one step per call on the scoped session *)

NoRow == [kind |-> "none"]

\* One call on the session: its name and whether it raised.
Call(name, raised) == [call |-> name, raised |-> raised]
NoKey == [f \in KeyFields |-> None]

Idle(t) == pc[t] = "idle"

\* The table assigns a row its id, the primary key, when the row is written.
flush(rows, table) ==
    [i \in 1..Len(rows) |-> [rows[i] EXCEPT !.id = Some(Len(table) + i)]]

\* The rows a query of the thread's session reads: the committed rows and,
\* the session flushing before it queries, the rows it has added itself.
visible(t) == db \o flush(pending[threads[t]], db)

\* create() that reads the clock once for created_at and once more for
\* updated_at.
create_two_clocks(t) ==
    /\ t \in DOMAIN threads
    /\ Idle(t)
    /\ Len(db) + Len(pending[threads[t]]) < MaxRows
    /\ \E a \in CreateArgs, timestamp \in Times, later \in Times :
         LET created_at == IF a.created_at = None THEN Some(timestamp) ELSE a.created_at
             updated_at == IF a.updated_at = None THEN Some(later) ELSE a.updated_at
             computed_metric_business_object ==
                 Merge([created_at |-> created_at, updated_at |-> updated_at, id |-> None], a)
         IN  op' = [op EXCEPT ![t] =
                      [kind |-> "create",
                       args |-> a,
                       row |-> translate_computed_metric_business_object_to_sqlalchemy_model(
                                   computed_metric_business_object),
                       key |-> NoKey, datetime_begin |-> None, datetime_end |-> None]]
    /\ pc' = [pc EXCEPT ![t] = "add"]
    /\ calls' = [calls EXCEPT ![t] = <<>>]
    /\ exc' = [exc EXCEPT ![t] = "none"]
    /\ results' = [results EXCEPT ![t] = <<>>]
    /\ outcome' = [outcome EXCEPT ![t] = [kind |-> "running", error |-> "none", value |-> <<>>]]
    /\ db0' = [db0 EXCEPT ![t] = db]
    /\ UNCHANGED <<db, threads, registry, pending, otherVars>>

\* create(): the business object with its timestamps defaulted to now, and
\* the row translated from it; timestamp is what datetime.now() returns.
create(t) ==
    /\ t \in DOMAIN threads
    /\ Idle(t)
    /\ Len(db) + Len(pending[threads[t]]) < MaxRows
    /\ \E a \in CreateArgs, timestamp \in Times :
         LET created_at == IF a.created_at = None THEN Some(timestamp) ELSE a.created_at
             updated_at == IF a.updated_at = None THEN Some(timestamp) ELSE a.updated_at
             computed_metric_business_object ==
                 Merge([created_at |-> created_at, updated_at |-> updated_at, id |-> None], a)
         IN  op' = [op EXCEPT ![t] =
                      [kind |-> "create",
                       args |-> a,
                       row |-> translate_computed_metric_business_object_to_sqlalchemy_model(
                                   computed_metric_business_object),
                       key |-> NoKey, datetime_begin |-> None, datetime_end |-> None]]
    /\ pc' = [pc EXCEPT ![t] = "add"]
    /\ calls' = [calls EXCEPT ![t] = <<>>]
    /\ exc' = [exc EXCEPT ![t] = "none"]
    /\ results' = [results EXCEPT ![t] = <<>>]
    /\ outcome' = [outcome EXCEPT ![t] = [kind |-> "running", error |-> "none", value |-> <<>>]]
    /\ db0' = [db0 EXCEPT ![t] = db]
    /\ UNCHANGED <<db, threads, registry, pending, otherVars>>

\* ComputedMetricIdentifier(metric_key=...).to_tuple(): the four key parts as
\* they were given; get() unpacks exactly four.
to_tuple(metric_key) == metric_key

\* get(): the key parts go through ComputedMetricIdentifier and come back as
\* the filtering criteria, each of the four, the omitted (None) ones too.
get(t) ==
    /\ t \in DOMAIN threads
    /\ Idle(t)
    /\ \E call \in GetArgs :
         op' = [op EXCEPT ![t] =
                  [kind |-> "get", args |-> NoRow, row |-> NoRow,
                   key |-> to_tuple(call.key),
                   datetime_begin |-> call.bounds.datetime_begin,
                   datetime_end |-> call.bounds.datetime_end]]
    /\ pc' = [pc EXCEPT ![t] = "query"]
    /\ calls' = [calls EXCEPT ![t] = <<>>]
    /\ exc' = [exc EXCEPT ![t] = "none"]
    /\ results' = [results EXCEPT ![t] = <<>>]
    /\ outcome' = [outcome EXCEPT ![t] = [kind |-> "running", error |-> "none", value |-> <<>>]]
    /\ db0' = [db0 EXCEPT ![t] = db]
    /\ UNCHANGED <<db, threads, registry, pending, otherVars>>

\* list()
list(t) ==
    /\ t \in DOMAIN threads
    /\ Idle(t)
    /\ \E bounds \in TimeBounds :
         op' = [op EXCEPT ![t] =
                  [kind |-> "list", args |-> NoRow, row |-> NoRow, key |-> NoKey,
                   datetime_begin |-> bounds.datetime_begin,
                   datetime_end |-> bounds.datetime_end]]
    /\ pc' = [pc EXCEPT ![t] = "query"]
    /\ calls' = [calls EXCEPT ![t] = <<>>]
    /\ exc' = [exc EXCEPT ![t] = "none"]
    /\ results' = [results EXCEPT ![t] = <<>>]
    /\ outcome' = [outcome EXCEPT ![t] = [kind |-> "running", error |-> "none", value |-> <<>>]]
    /\ db0' = [db0 EXCEPT ![t] = db]
    /\ UNCHANGED <<db, threads, registry, pending, otherVars>>

\* The body of create()'s with block: session.add(row).  The scoped session
\* makes the thread's session on its first use.
session_add(t) ==
    /\ pc[t] = "add"
    /\ registry' = [registry EXCEPT ![threads[t]] = TRUE]
    /\ \/ /\ calls' = [calls EXCEPT ![t] = Append(@, Call("add", FALSE))]
          /\ pending' = [pending EXCEPT ![threads[t]] = Append(@, op[t].row)]
          /\ pc' = [pc EXCEPT ![t] = "commit"]
          /\ UNCHANGED exc
       \/ /\ calls' = [calls EXCEPT ![t] = Append(@, Call("add", TRUE))]
          /\ exc' = [exc EXCEPT ![t] = "add"]
          /\ pc' = [pc EXCEPT ![t] = "except"]
          /\ UNCHANGED pending
    /\ UNCHANGED <<db, threads, op, results, outcome, db0, otherVars>>

\* The rows the query of get() or list() selects before the time filter.
query_object(t) ==
    IF op[t].kind = "get"
    THEN SelectSeq(visible(t), LAMBDA r : conditions(op[t].key, r))
    ELSE visible(t)

\* The body of get()'s and list()'s with block: the query, filtered by time,
\* sorted and translated.
session_query(t) ==
    /\ pc[t] = "query"
    /\ registry' = [registry EXCEPT ![threads[t]] = TRUE]
    /\ \/ /\ calls' = [calls EXCEPT ![t] = Append(@, Call("query", FALSE))]
          /\ \E all_rows \in Orderings(query_object(t)) :
               results' = [results EXCEPT ![t] =
                   get_datetime_filtered_query_results(
                       all_rows, op[t].datetime_begin, op[t].datetime_end)]
          /\ pc' = [pc EXCEPT ![t] = "commit"]
          /\ UNCHANGED exc
       \/ /\ calls' = [calls EXCEPT ![t] = Append(@, Call("query", TRUE))]
          /\ exc' = [exc EXCEPT ![t] = "query"]
          /\ pc' = [pc EXCEPT ![t] = "except"]
          /\ UNCHANGED results
    /\ UNCHANGED <<db, threads, pending, op, outcome, db0, otherVars>>


\* get() that returns the last of its results instead of the first.
return_value_last(t) ==
    IF op[t].kind = "list" THEN results[t]
    ELSE IF op[t].kind = "get"
    THEN (IF results[t] = <<>> THEN None ELSE Some(results[t][Len(results[t])]))
    ELSE None

\* What the operation returns when nothing propagates: create() returns None,
\* get() the first result or None when there is none, list() the results.
return_value(t) ==
    IF op[t].kind = "list" THEN results[t]
    ELSE IF op[t].kind = "get"
    THEN (IF results[t] = <<>> THEN None ELSE Some(results[t][1]))
    ELSE None

\* The operation ends: it raises the propagating exception e (named by the
\* session call that raised it), or returns.
finish(t, e) ==
    /\ pc' = [pc EXCEPT ![t] = "done"]
    /\ outcome' = [outcome EXCEPT ![t] =
          IF e = "none"
          THEN [kind |-> "returned", error |-> "none", value |-> return_value(t)]
          ELSE [kind |-> "raised", error |-> e, value |-> <<>>]]

\* The commit that writes a row over the stored rows of the same key.
managed_commit_upsert(t) ==
    /\ pc[t] = "commit"
    /\ \/ /\ calls' = [calls EXCEPT ![t] = Append(@, Call("commit", FALSE))]
          /\ db' = SelectSeq(db, LAMBDA r :
                        \A i \in 1..Len(pending[threads[t]]) :
                            \E f \in KeyFields : r[f] # pending[threads[t]][i][f])
                    \o flush(pending[threads[t]], db)
          /\ pending' = [pending EXCEPT ![threads[t]] = <<>>]
          /\ pc' = [pc EXCEPT ![t] = "close"]
          /\ UNCHANGED exc
       \/ /\ calls' = [calls EXCEPT ![t] = Append(@, Call("commit", TRUE))]
          /\ exc' = [exc EXCEPT ![t] = "commit"]
          /\ pc' = [pc EXCEPT ![t] = "except"]
          /\ UNCHANGED <<db, pending>>
    /\ registry' = [registry EXCEPT ![threads[t]] = TRUE]
    /\ UNCHANGED <<threads, op, results, outcome, db0, otherVars>>

\* The commit of one session shared by all threads: it writes the rows any
\* thread has added.
managed_commit_one_session(t) ==
    /\ pc[t] = "commit"
    /\ \/ /\ calls' = [calls EXCEPT ![t] = Append(@, Call("commit", FALSE))]
          /\ db' = db \o flush(pending["t1"] \o pending["t2"], db)
          /\ pending' = [u \in AllThreads |-> <<>>]
          /\ pc' = [pc EXCEPT ![t] = "close"]
          /\ UNCHANGED exc
       \/ /\ calls' = [calls EXCEPT ![t] = Append(@, Call("commit", TRUE))]
          /\ exc' = [exc EXCEPT ![t] = "commit"]
          /\ pc' = [pc EXCEPT ![t] = "except"]
          /\ UNCHANGED <<db, pending>>
    /\ registry' = [registry EXCEPT ![threads[t]] = TRUE]
    /\ UNCHANGED <<threads, op, results, outcome, db0, otherVars>>

\* The commit of a session that writes only the row of the operation that
\* commits, and keeps the other rows the session has added.
managed_commit_own_row(t) ==
    /\ pc[t] = "commit"
    /\ \/ /\ calls' = [calls EXCEPT ![t] = Append(@, Call("commit", FALSE))]
          /\ LET own == SelectSeq(pending[threads[t]], LAMBDA r : r = op[t].row)
                 others == SelectSeq(pending[threads[t]], LAMBDA r : r # op[t].row)
             IN  /\ db' = db \o flush(own, db)
                 /\ pending' = [pending EXCEPT ![threads[t]] = others]
          /\ pc' = [pc EXCEPT ![t] = "close"]
          /\ UNCHANGED exc
       \/ /\ calls' = [calls EXCEPT ![t] = Append(@, Call("commit", TRUE))]
          /\ exc' = [exc EXCEPT ![t] = "commit"]
          /\ pc' = [pc EXCEPT ![t] = "except"]
          /\ UNCHANGED <<db, pending>>
    /\ registry' = [registry EXCEPT ![threads[t]] = TRUE]
    /\ UNCHANGED <<threads, op, results, outcome, db0, otherVars>>

\* _get_managed_scoped_db_session, after the yield: session.commit() writes
\* the session's rows to the table, or fails and writes nothing.  Every call
\* on the scoped session but remove() goes to the thread's session, which the
\* registry makes when the thread has none.
managed_commit(t) ==
    /\ pc[t] = "commit"
    /\ \/ /\ calls' = [calls EXCEPT ![t] = Append(@, Call("commit", FALSE))]
          /\ db' = visible(t)
          /\ pending' = [pending EXCEPT ![threads[t]] = <<>>]
          /\ pc' = [pc EXCEPT ![t] = "close"]
          /\ UNCHANGED exc
       \/ /\ calls' = [calls EXCEPT ![t] = Append(@, Call("commit", TRUE))]
          /\ exc' = [exc EXCEPT ![t] = "commit"]
          /\ pc' = [pc EXCEPT ![t] = "except"]
          /\ UNCHANGED <<db, pending>>
    /\ registry' = [registry EXCEPT ![threads[t]] = TRUE]
    /\ UNCHANGED <<threads, op, results, outcome, db0, otherVars>>

\* The handler commits where it should roll back.
managed_except_commits(t) ==
    /\ pc[t] = "except"
    /\ calls' = [calls EXCEPT ![t] = Append(@, Call("commit", FALSE))]
    /\ db' = visible(t)
    /\ pending' = [pending EXCEPT ![threads[t]] = <<>>]
    /\ pc' = [pc EXCEPT ![t] = "close"]
    /\ registry' = [registry EXCEPT ![threads[t]] = TRUE]
    /\ UNCHANGED <<exc, threads, op, results, outcome, db0, otherVars>>

\* The handler rolls back and does not re-raise.
managed_except_swallows(t) ==
    /\ pc[t] = "except"
    /\ calls' = [calls EXCEPT ![t] = Append(@, Call("rollback", FALSE))]
    /\ pending' = [pending EXCEPT ![threads[t]] = <<>>]
    /\ exc' = [exc EXCEPT ![t] = "none"]
    /\ pc' = [pc EXCEPT ![t] = "close"]
    /\ registry' = [registry EXCEPT ![threads[t]] = TRUE]
    /\ UNCHANGED <<db, threads, op, results, outcome, db0, otherVars>>

\* except Exception: session.rollback(); raise.  The rollback discards the
\* session's rows and the exception goes on propagating, or the rollback
\* itself raises and its exception propagates instead.
managed_except(t) ==
    /\ pc[t] = "except"
    /\ \/ /\ calls' = [calls EXCEPT ![t] = Append(@, Call("rollback", FALSE))]
          /\ pending' = [pending EXCEPT ![threads[t]] = <<>>]
          /\ UNCHANGED exc
       \/ /\ calls' = [calls EXCEPT ![t] = Append(@, Call("rollback", TRUE))]
          /\ exc' = [exc EXCEPT ![t] = "rollback"]
          /\ UNCHANGED pending
    /\ pc' = [pc EXCEPT ![t] = "close"]
    /\ registry' = [registry EXCEPT ![threads[t]] = TRUE]
    /\ UNCHANGED <<db, threads, op, results, outcome, db0, otherVars>>

\* finally: session.close().  close() first expunges every object of the
\* session and then releases its connection, which may raise; when it
\* raises, session.remove() on the next line is not reached.
managed_close(t) ==
    /\ pc[t] = "close"
    /\ pending' = [pending EXCEPT ![threads[t]] = <<>>]
    /\ \/ /\ calls' = [calls EXCEPT ![t] = Append(@, Call("close", FALSE))]
          /\ pc' = [pc EXCEPT ![t] = "remove"]
          /\ UNCHANGED <<exc, outcome>>
       \/ /\ calls' = [calls EXCEPT ![t] = Append(@, Call("close", TRUE))]
          /\ exc' = [exc EXCEPT ![t] = "close"]
          /\ finish(t, "close")
    /\ registry' = [registry EXCEPT ![threads[t]] = TRUE]
    /\ UNCHANGED <<db, threads, op, results, db0, otherVars>>

\* finally: session.remove() discards the thread's session from the
\* registry; then the operation returns or the exception reaches the caller.
managed_remove(t) ==
    /\ pc[t] = "remove"
    /\ calls' = [calls EXCEPT ![t] = Append(@, Call("remove", FALSE))]
    /\ registry' = [registry EXCEPT ![threads[t]] = FALSE]
    /\ pending' = [pending EXCEPT ![threads[t]] = <<>>]
    /\ finish(t, exc[t])
    /\ UNCHANGED <<db, threads, op, exc, results, db0, otherVars>>

NoOp ==
    [kind |-> "none", args |-> NoRow, row |-> NoRow, key |-> NoKey,
     datetime_begin |-> None, datetime_end |-> None]

\* The caller has the operation's value or exception and goes on: the
\* operation's frame is gone.
return_to_caller(t) ==
    /\ pc[t] = "done"
    /\ pc' = [pc EXCEPT ![t] = "idle"]
    /\ op' = [op EXCEPT ![t] = NoOp]
    /\ calls' = [calls EXCEPT ![t] = <<>>]
    /\ exc' = [exc EXCEPT ![t] = "none"]
    /\ results' = [results EXCEPT ![t] = <<>>]
    /\ outcome' = [outcome EXCEPT ![t] = [kind |-> "none", error |-> "none", value |-> <<>>]]
    /\ db0' = [db0 EXCEPT ![t] = <<>>]
    /\ UNCHANGED <<db, threads, registry, pending, otherVars>>

-----------------------------------------------------------------------------
(* The construction of the store *)

\* A dict is a function from its keys; pop(key) drops the key.
EmptyDict == [k \in {} |-> ""]
Drop(d, k) == [x \in (DOMAIN d) \ {k} |-> d[x]]
Get(d, k) == IF k \in DOMAIN d THEN Some(d[k]) ELSE None
Dict1(k, v) == [x \in {k} |-> v]

\* The credentials dicts __init__ is called with.
CredentialDicts ==
    { Merge(Dict1("drivername", "postgresql"), Dict1("host", "h")),
      Merge(Merge(Dict1("drivername", "postgresql"), Dict1("schema", "s")),
            Merge(Dict1("connect_args", "ca"), Dict1("host", "h"))),
      Dict1("host", "h"),
      Merge(Merge(Dict1("drivername", "snowflake"), Dict1("private_key_path", "k.pem")),
            Merge(Dict1("private_key_passphrase", "pw"), Dict1("user", "u"))),
      Merge(Merge(Dict1("drivername", "snowflake"), Dict1("private_key_path", "k.pem")),
            Dict1("private_key_passphrase", "")),
      Merge(Dict1("drivername", "snowflake"), Dict1("private_key_path", "k.pem")) }

\* What serialization.load_pem_private_key() does with the key file: loads
\* the key, or raises a ValueError that says the password is incorrect, or
\* raises another ValueError.
KeyOutcomes == {"loaded", "incorrect password", "invalid key"}

\* The arguments of one __init__ call; sa tells whether sqlalchemy is importable.
CtorArgs ==
    [sa : BOOLEAN,
     engine : Opt({"caller_engine"}),
     credentials : Opt(CredentialDicts),
     connection_string : Opt({"sqlite://"}),
     url : Opt({"postgresql://h/db", "not a url"})]

\* great_expectations.util.get_sqlalchemy_url: the URL of a driver name and
\* the remaining credentials.
get_sqlalchemy_url(drivername, credentials) ==
    [drivername |-> drivername, parts |-> credentials]

\* sa.create_engine(options, **kwargs)
create_engine(source, options, kwargs) ==
    [source |-> source, options |-> options, kwargs |-> kwargs]

NoEngineBuilt(error, credentials) ==
    [error |-> error, engine |-> None, credentials |-> credentials,
     drivername |-> None, schema_name |-> None]

\* _get_sqlalchemy_key_pair_auth_url: pops the key path and the passphrase
\* from the credentials, loads the key, and returns the URL with the engine
\* kwargs that carry the key.
get_sqlalchemy_key_pair_auth_url(drivername, credentials, key_outcome) ==
    LET c1 == Drop(credentials, "private_key_path")
        c2 == Drop(c1, "private_key_passphrase")
        c3 == Drop(c2, "drivername")
        private_key_passphrase == credentials["private_key_passphrase"]
        password == IF private_key_passphrase # "" THEN Some(private_key_passphrase) ELSE None
    IN  IF "private_key_passphrase" \notin DOMAIN c1
        THEN [error |-> "KeyError", credentials |-> c1, url |-> None, kwargs |-> EmptyDict]
        ELSE IF key_outcome = "incorrect password"
        THEN [error |-> "DatasourceKeyPairAuthBadPassphraseError", credentials |-> c2,
              url |-> None, kwargs |-> EmptyDict]
        ELSE IF key_outcome = "invalid key"
        THEN [error |-> "ValueError", credentials |-> c2, url |-> None, kwargs |-> EmptyDict]
        ELSE [error |-> "none", credentials |-> c3,
              url |-> Some(get_sqlalchemy_url(drivername, c3)),
              kwargs |-> Dict1("connect_args", "private_key")]

\* _build_engine: pops drivername, schema and connect_args from the
\* credentials and builds an engine from the rest.
build_engine(credentials, key_outcome) ==
    IF "drivername" \notin DOMAIN credentials
    THEN NoEngineBuilt("KeyError", credentials)
    ELSE LET drivername == credentials["drivername"]
             c1 == Drop(credentials, "drivername")
             schema_name == Get(c1, "schema")
             c2 == Drop(c1, "schema")
             connect_args == Get(c2, "connect_args")
             c3 == Drop(c2, "connect_args")
             create_engine_kwargs ==
                 IF connect_args # None /\ connect_args # Some("")
                 THEN Dict1("connect_args", connect_args[1])
                 ELSE EmptyDict
         IN  IF "private_key_path" \in DOMAIN c3
             THEN LET r == get_sqlalchemy_key_pair_auth_url(drivername, c3, key_outcome)
                  IN  IF r.error # "none"
                      THEN [NoEngineBuilt(r.error, r.credentials) EXCEPT
                                !.schema_name = schema_name]
                      ELSE [error |-> "none",
                            engine |-> Some(create_engine("credentials", r.url[1], r.kwargs)),
                            credentials |-> r.credentials,
                            drivername |-> Some(drivername),
                            schema_name |-> schema_name]
             ELSE [error |-> "none",
                   engine |-> Some(create_engine("credentials",
                                                 get_sqlalchemy_url(drivername, c3),
                                                 create_engine_kwargs)),
                   credentials |-> c3,
                   drivername |-> Some(drivername),
                   schema_name |-> schema_name]

NoStore ==
    [engine |-> None, scoped_db_session |-> None, schema_name |-> None, drivername |-> None]

\* The store object with its scoped session made for the engine.
Constructed(engine, schema_name, drivername) ==
    [engine |-> engine, scoped_db_session |-> Some([bind |-> engine[1]]),
     schema_name |-> schema_name, drivername |-> drivername]

\* __init__ with the credentials branch tested before the engine branch.
init_credentials_first(a, key_outcome) ==
    LET failed(error, credentials) ==
            [error |-> error, store |-> NoStore, credentials |-> credentials,
             created |-> <<>>, warnings |-> <<>>]
    IN  IF ~ a.sa
        THEN failed("DataContextError", a.credentials)
        ELSE IF a.credentials # None
        THEN LET r == build_engine(a.credentials[1], key_outcome)
             IN  IF r.error # "none"
                 THEN failed(r.error, Some(r.credentials))
                 ELSE [error |-> "none",
                       store |-> Constructed(r.engine, r.schema_name, r.drivername),
                       credentials |-> Some(r.credentials),
                       created |-> <<r.engine[1]>>,
                       warnings |-> <<>>]
        ELSE IF a.engine # None
        THEN [error |-> "none", store |-> Constructed(a.engine, None, None),
              credentials |-> a.credentials, created |-> <<>>, warnings |-> <<>>]
        ELSE failed("InvalidConfigError", a.credentials)

\* __init__ with the url branch tested before the connection_string branch.
init_url_first(a, key_outcome) ==
    LET failed(error, credentials) ==
            [error |-> error, store |-> NoStore, credentials |-> credentials,
             created |-> <<>>, warnings |-> <<>>]
        built(engine) ==
            [error |-> "none", store |-> Constructed(Some(engine), None, None),
             credentials |-> a.credentials, created |-> <<engine>>, warnings |-> <<>>]
    IN  IF ~ a.sa
        THEN failed("DataContextError", a.credentials)
        ELSE IF a.engine # None
        THEN [error |-> "none", store |-> Constructed(a.engine, None, None),
              credentials |-> a.credentials, created |-> <<>>, warnings |-> <<>>]
        ELSE IF a.credentials # None
        THEN LET r == build_engine(a.credentials[1], key_outcome)
             IN  IF r.error # "none"
                 THEN failed(r.error, Some(r.credentials))
                 ELSE [error |-> "none",
                       store |-> Constructed(r.engine, r.schema_name, r.drivername),
                       credentials |-> Some(r.credentials),
                       created |-> <<r.engine[1]>>,
                       warnings |-> <<>>]
        ELSE IF a.url # None
        THEN IF a.url = Some("not a url")
             THEN failed("ArgumentError", a.credentials)
             ELSE built(create_engine("url", a.url[1], EmptyDict))
        ELSE IF a.connection_string # None
        THEN built(create_engine("connection_string", a.connection_string[1], EmptyDict))
        ELSE failed("InvalidConfigError", a.credentials)

\* What __init__ does with its arguments: the exception it raises or the
\* object it leaves, the caller's credentials after it, the engines it built
\* and the warnings it logged.
\* The branches test engine, credentials, connection_string and url in this
\* order.
init(a, key_outcome) ==
    LET unchanged == a.credentials
        failed(error, credentials) ==
            [error |-> error, store |-> NoStore, credentials |-> credentials,
             created |-> <<>>, warnings |-> <<>>]
    IN  IF ~ a.sa
        THEN failed("DataContextError", unchanged)
        ELSE IF a.engine # None
        THEN [error |-> "none",
              store |-> Constructed(a.engine, None, None),
              credentials |-> unchanged,
              created |-> <<>>,
              warnings |-> IF a.credentials # None
                           THEN <<"Both credentials and engine were provided">>
                           ELSE <<>>]
        ELSE IF a.credentials # None
        THEN LET r == build_engine(a.credentials[1], key_outcome)
             IN  IF r.error # "none"
                 THEN failed(r.error, Some(r.credentials))
                 ELSE [error |-> "none",
                       store |-> Constructed(r.engine, r.schema_name, r.drivername),
                       credentials |-> Some(r.credentials),
                       created |-> <<r.engine[1]>>,
                       warnings |-> <<>>]
        ELSE IF a.connection_string # None
        THEN LET engine == create_engine("connection_string", a.connection_string[1], EmptyDict)
             IN  [error |-> "none",
                  store |-> Constructed(Some(engine), None, None),
                  credentials |-> unchanged,
                  created |-> <<engine>>,
                  warnings |-> <<>>]
        ELSE IF a.url # None
        THEN IF a.url = Some("not a url")
             THEN failed("ArgumentError", unchanged)
             ELSE LET engine == create_engine("url", a.url[1], EmptyDict)
                  IN  [error |-> "none",
                       store |-> Constructed(Some(engine), None, Some("postgresql")),
                       credentials |-> unchanged,
                       created |-> <<engine>>,
                       warnings |-> <<>>]
        ELSE failed("InvalidConfigError", unchanged)

\* SqlAlchemyComputedMetricsStore(...): the whole of __init__.
construct ==
    /\ ctor_pc = "new"
    /\ LET r == init(ctor_args, key_file)
       IN  /\ ctor_pc' = IF r.error = "none" THEN "constructed" ELSE "failed"
           /\ ctor_error' = r.error
           /\ store' = r.store
           /\ caller_credentials' = r.credentials
           /\ created_engines' = r.created
           /\ warnings' = r.warnings
    /\ UNCHANGED <<ctor_args, key_file, storeVars, translateVars, substVars, contextVars>>

\* The store the operations are called on: constructed with an engine.
StoreConstructed ==
    /\ ctor_pc = "constructed"
    /\ ctor_args = [sa |-> TRUE, engine |-> Some("caller_engine"), credentials |-> None,
                    connection_string |-> None, url |-> None]
    /\ caller_credentials = None
    /\ store = Constructed(Some("caller_engine"), None, None)
    /\ created_engines = <<>>
    /\ warnings = <<>>
    /\ ctor_error = "none"
    /\ key_file = "loaded"

-----------------------------------------------------------------------------
(* The store after construction, called from one thread *)

StoreInit ==
    /\ db = <<>>
    /\ registry = [t \in AllThreads |-> FALSE]
    /\ pending = [t \in AllThreads |-> <<>>]
    /\ pc = [t \in AllThreads |-> "idle"]
    /\ op = [t \in AllThreads |-> NoOp]
    /\ calls = [t \in AllThreads |-> <<>>]
    /\ exc = [t \in AllThreads |-> "none"]
    /\ results = [t \in AllThreads |-> <<>>]
    /\ outcome = [t \in AllThreads |-> [kind |-> "none", error |-> "none", value |-> <<>>]]
    /\ db0 = [t \in AllThreads |-> <<>>]

NoSubstitution ==
    /\ sub_pc = "off"
    /\ sub_x = <<>>
    /\ sub_vars = <<>>
    /\ sub_once = <<>>
    /\ sub_twice = <<>>

NoSuiteCall ==
    [op |-> "none", name |-> "", overwrite_existing |-> FALSE, error |-> "none",
     value |-> <<>>, before |-> <<>>]

\* No expectation suite is stored and no suite method has been called.
NoSuites ==
    /\ expectations_store = <<>>
    /\ suite_call = NoSuiteCall

NoContext ==
    /\ ctx_pc = "off"
    /\ file_backed = FALSE
    /\ yml = <<>>
    /\ variables_file = <<>>
    /\ project_config = <<>>
    /\ datasources = <<>>
    /\ stores = <<>>
    /\ validation_operators = <<>>
    /\ instances = 0
    /\ as_given = <<>>
    /\ last = <<>>
    /\ frames = <<>>
    /\ history = <<>>
    /\ key_order = <<>>
    /\ self_data_asset_name_delimiter = None
    /\ active_environment_name = None
    /\ NoSuites
    /\ self_context_root_directory = None

NoTranslation ==
    /\ tr_pc = "off"
    /\ business = NoRow
    /\ model_obj = NoRow
    /\ back = NoRow

Init ==
    /\ StoreInit
    /\ threads = [t \in {"t1"} |-> t]
    /\ NoTranslation
    /\ NoSubstitution
    /\ NoContext
    /\ StoreConstructed

\* A store about to be constructed, with any arguments.
CtorInit ==
    /\ StoreInit
    /\ threads = <<>>
    /\ NoTranslation
    /\ NoSubstitution
    /\ NoContext
    /\ ctor_pc = "new"
    /\ ctor_args \in CtorArgs
    /\ key_file \in KeyOutcomes
    /\ caller_credentials = ctor_args.credentials
    /\ store = NoStore
    /\ created_engines = <<>>
    /\ warnings = <<>>
    /\ ctor_error = "none"

CtorNext == construct

CtorSpec == CtorInit /\ [][CtorNext]_vars

StoreNext ==
    \E t \in AllThreads :
        \/ create(t)
        \/ get(t)
        \/ list(t)
        \/ session_add(t)
        \/ session_query(t)
        \/ managed_commit(t)
        \/ managed_except(t)
        \/ managed_close(t)
        \/ managed_remove(t)
        \/ return_to_caller(t)

Next == StoreNext

Spec == Init /\ [][Next]_vars

-----------------------------------------------------------------------------
(* The two translations, applied one after the other to a business object *)

\* The business objects: any key, timestamps, optional fields, and an id or none.
BusinessObjects ==
    { Merge(Merge(k, ts), p) :
        k \in Keys,
        ts \in [created_at : Opt(Times), updated_at : Opt(Times), id : Opt(1..MaxRows)],
        p \in Profiles }

to_sqlalchemy_model ==
    /\ tr_pc = "business"
    /\ model_obj' = translate_computed_metric_business_object_to_sqlalchemy_model(business)
    /\ tr_pc' = "model"
    /\ UNCHANGED <<business, back>>

to_business_object ==
    /\ tr_pc = "model"
    /\ back' = translate_sqlalchemy_computed_metric_model_to_business_object(model_obj)
    /\ tr_pc' = "back"
    /\ UNCHANGED <<business, model_obj>>

TranslateInit ==
    /\ StoreInit
    /\ StoreConstructed
    /\ NoSubstitution
    /\ NoContext
    /\ threads = <<>>
    /\ tr_pc = "business"
    /\ business \in BusinessObjects
    /\ model_obj = NoRow
    /\ back = NoRow

TranslateNext ==
    /\ UNCHANGED <<storeVars, ctorVars, substVars, contextVars>>
    /\ \/ to_sqlalchemy_model
       \/ to_business_object

TranslateSpec == TranslateInit /\ [][TranslateNext]_vars

\* C8: a business object translated to a row object and back is the business
\* object it was, in every field.
C8_RoundTrip ==
    tr_pc = "back" => back = business

\* What the round trip keeps: every field but id.
C8_RoundTripButId ==
    tr_pc = "back" => \A f \in (DOMAIN business) \ {"id"} : back[f] = business[f]

-----------------------------------------------------------------------------
(* Properties of the store's operations *)

Range(s) == {s[i] : i \in 1..Len(s)}

Names(cs) == [i \in 1..Len(cs) |-> cs[i].call]

\* The calls on the session after the with block's body.
SessionEvents(t) == Names(SelectSeq(calls[t], LAMBDA c : c.call \notin {"add", "query"}))

Raised(t) == SelectSeq(calls[t], LAMBDA c : c.raised)

Done(t, kind) == t \in DOMAIN threads /\ pc[t] = "done" /\ op[t].kind = kind

Ended(t) == t \in DOMAIN threads /\ pc[t] = "done"

\* What a list() with no time bounds returns when the table holds `table`.
ListAll(table) == get_datetime_filtered_query_results(table, None, None)

\* C1: when create() raises while adding the row or while committing, a
\* list() without bounds that follows returns exactly what it returned before
\* the create(): the failed create's row is neither in the table nor left in
\* the session, whatever rollback and close then do.
C1_CreateAtomic ==
    \A t \in AllThreads :
        (Done(t, "create") /\ Raised(t) # <<>> /\ Raised(t)[1].call \in {"add", "commit"})
            => /\ outcome[t].kind = "raised"
               /\ pending[t] = <<>>
               /\ ListAll(visible(t)) = ListAll(db0[t])

\* A create() onto a table that holds a row raised at its commit.
C1_Witness ==
    \E t \in AllThreads :
        /\ Done(t, "create") /\ outcome[t].kind = "raised"
        /\ Call("add", FALSE) \in Range(calls[t])
        /\ Call("commit", TRUE) \in Range(calls[t])
        /\ db0[t] # <<>>

\* C2: every ended operation made its session calls in the order commit,
\* close, remove (it returned) or rollback, close, remove (its body or commit
\* raised, and it raised), and the session is released, also when rollback or
\* close raised; commit and rollback did not both take effect.
C2_SessionDiscipline ==
    \A t \in AllThreads :
        Ended(t) =>
            /\ registry[t] = FALSE
            /\ outcome[t].kind = "returned"
                  => SessionEvents(t) = <<"commit", "close", "remove">>
            /\ outcome[t].kind = "raised"
                  => SessionEvents(t) \in { <<"rollback", "close", "remove">>,
                                            <<"commit", "rollback", "close", "remove">> }
            /\ ~ (Call("commit", FALSE) \in Range(calls[t])
                    /\ Call("rollback", FALSE) \in Range(calls[t]))

\* The part of C2 the code keeps: the order of the session calls on every
\* path on which close() does not raise.
C2_OrderWhenCloseReturns ==
    \A t \in AllThreads :
        (Ended(t) /\ Call("close", TRUE) \notin Range(calls[t])) =>
            /\ registry[t] = FALSE
            /\ outcome[t].kind = "returned"
                  => SessionEvents(t) = <<"commit", "close", "remove">>
            /\ outcome[t].kind = "raised"
                  => SessionEvents(t) \in { <<"rollback", "close", "remove">>,
                                            <<"commit", "rollback", "close", "remove">> }

\* C3 as stated: the caller receives the error the body or the commit raised.
C3_CallerGetsOriginalError ==
    \A t \in AllThreads :
        (Ended(t) /\ Raised(t) # <<>>)
            => /\ outcome[t].kind = "raised"
               /\ outcome[t].error = Raised(t)[1].call

\* C3, amended: an operation whose body or commit raised never returns
\* normally; the caller receives the last exception raised, which is the
\* original one unless rollback or close raised after it; an operation in
\* which nothing raised returns.
C3_NoErrorSwallowed ==
    \A t \in AllThreads :
        Ended(t) =>
            /\ Raised(t) # <<>>
                  => /\ outcome[t].kind = "raised"
                     /\ outcome[t].error = Raised(t)[Len(Raised(t))].call
            /\ (Raised(t) # <<>>
                  /\ \A i \in 1..Len(Raised(t)) : Raised(t)[i].call \notin {"rollback", "close"})
                  => outcome[t].error = Raised(t)[1].call
            /\ Raised(t) = <<>> => outcome[t].kind = "returned"

\* The body raised, then the rollback raised: the caller has the rollback's
\* exception.
C3_Witness ==
    \E t \in AllThreads :
        /\ Ended(t)
        /\ Len(Raised(t)) = 2
        /\ Raised(t)[1].call \in {"add", "query"}
        /\ Raised(t)[2].call = "rollback"
        /\ outcome[t].error = "rollback"

-----------------------------------------------------------------------------
(* Properties of list() and get() *)

Stored == Range(db)

InBounds(r, datetime_begin, datetime_end) ==
    /\ datetime_begin = None \/ r.updated_at[1] >= datetime_begin[1]
    /\ datetime_end = None \/ r.updated_at[1] <= datetime_end[1]

\* The stored records, as business objects, whose updated_at is within the bounds.
Matching(datetime_begin, datetime_end) ==
    { translate_sqlalchemy_computed_metric_model_to_business_object(r) :
        r \in { x \in Stored : InBounds(x, datetime_begin, datetime_end) } }

Returned(t, kind) == Done(t, kind) /\ outcome[t].kind = "returned"

C5_ListOrdered ==
    \A t \in AllThreads :
        Returned(t, "list") =>
            LET v == outcome[t].value
            IN  /\ \A i \in 1..(Len(v) - 1) : v[i].updated_at[1] >= v[i + 1].updated_at[1]
                /\ \A i, j \in 1..Len(v) : i # j => v[i] # v[j]
                /\ Range(v) = Matching(op[t].datetime_begin, op[t].datetime_end)

\* A list() returned two records in the reverse of the order they are stored in.
C5_Witness ==
    \E t \in AllThreads :
        /\ Returned(t, "list")
        /\ Len(outcome[t].value) = 2 /\ Len(db) = 2
        /\ db[1].updated_at[1] < db[2].updated_at[1]
        /\ outcome[t].value[1].id = db[2].id
        /\ outcome[t].value[2].id = db[1].id

SameKey(x, y) == \A f \in KeyFields : x[f] = y[f]

\* C6 as stated: records of one key come back strictly descending.
C6_StrictlyDescending ==
    \A t \in AllThreads :
        Returned(t, "list") =>
            LET v == outcome[t].value
            IN  \A i, j \in 1..Len(v) :
                    (i < j /\ SameKey(v[i], v[j])) => v[i].updated_at[1] > v[j].updated_at[1]

\* C6, amended: the records of one identity key come back from list() sorted
\* by updated_at descending, not strictly: a record's updated_at is greater
\* than or equal to that of every record of its key returned after it, and
\* every stored record of that key within the bounds is among them.
C6_SameKeyDescending ==
    \A t \in AllThreads :
        Returned(t, "list") =>
            LET v == outcome[t].value
            IN  /\ \A i, j \in 1..Len(v) :
                      (i < j /\ SameKey(v[i], v[j])) => v[i].updated_at[1] >= v[j].updated_at[1]
                /\ \A x \in Matching(op[t].datetime_begin, op[t].datetime_end) :
                      \E i \in 1..Len(v) : v[i] = x

\* A list() returned two records of one key with the same updated_at.
C6_Witness ==
    \E t \in AllThreads :
        /\ Returned(t, "list")
        /\ \E i, j \in 1..Len(outcome[t].value) :
              /\ i < j
              /\ SameKey(outcome[t].value[i], outcome[t].value[j])
              /\ outcome[t].value[i].updated_at = outcome[t].value[j].updated_at

\* The stored records, as business objects, that a key with omitted parts
\* matches when an omitted part does not restrict.
MatchingKey(key, datetime_begin, datetime_end) ==
    { x \in Matching(datetime_begin, datetime_end) :
        \A f \in KeyFields : key[f] = None \/ x[f] = key[f] }

\* C7: get() with a partial key returns, among the stored records whose given
\* key parts match and whose updated_at is within the bounds, one with the
\* greatest updated_at (None when there is none); an omitted key part does
\* not restrict the match.
C7_PartialKeyGet ==
    \A t \in AllThreads :
        (/\ Returned(t, "get")
         /\ \E f \in KeyFields : op[t].key[f] = None
         /\ \E f \in KeyFields : op[t].key[f] # None) =>
            LET m == MatchingKey(op[t].key, op[t].datetime_begin, op[t].datetime_end)
                v == outcome[t].value
            IN  IF m = {} THEN v = None
                ELSE /\ v # None
                     /\ v[1] \in m
                     /\ \A x \in m : x.updated_at[1] <= v[1].updated_at[1]

-----------------------------------------------------------------------------
(* Properties of the construction *)

CtorEnded == ctor_pc \in {"constructed", "failed"}

\* The connection modes the call supplies.
Supplied ==
    { m \in {"engine", "credentials", "connection_string", "url"} : ctor_args[m] # None }

\* C9: constructed with an engine, the store uses exactly that engine and
\* builds none, whatever else is supplied; with credentials supplied too, a
\* warning is logged and the credentials dict is left as it was.
C9_EngineExclusive ==
    (CtorEnded /\ ctor_args.engine # None) =>
        /\ created_engines = <<>>
        /\ caller_credentials = ctor_args.credentials
        /\ ctor_pc = "constructed" <=> ctor_args.sa
        /\ ctor_pc = "constructed" =>
              /\ store.engine = ctor_args.engine
              /\ store.scoped_db_session = Some([bind |-> ctor_args.engine[1]])
              /\ ctor_args.credentials # None <=> warnings # <<>>

\* A store constructed with an engine, credentials and a url.
C9_Witness ==
    /\ ctor_pc = "constructed"
    /\ ctor_args.engine # None
    /\ ctor_args.credentials # None
    /\ ctor_args.url # None
    /\ warnings # <<>>

\* C10 as stated: unless exactly one connection mode is supplied, __init__
\* fails with InvalidConfigError and makes no engine and no session.
C10_ExactlyOneMode ==
    (CtorEnded /\ ctor_args.sa /\ Cardinality(Supplied) # 1) =>
        /\ ctor_error = "InvalidConfigError"
        /\ store = NoStore
        /\ created_engines = <<>>

\* The mode __init__ takes when several are supplied.
HighestPriority ==
    IF "engine" \in Supplied THEN "engine"
    ELSE IF "credentials" \in Supplied THEN "credentials"
    ELSE IF "connection_string" \in Supplied THEN "connection_string"
    ELSE "url"

\* C10, amended: with sqlalchemy importable, __init__ fails with
\* InvalidConfigError exactly when none of engine, credentials,
\* connection_string, url is supplied, and then makes no engine and no
\* session; supplying more than one is not an error; a constructed store's
\* engine is the supplied engine or is built from the highest-priority mode
\* supplied, in the order engine, credentials, connection_string, url, and
\* no other engine is built.
C10_ModeSelection ==
    (CtorEnded /\ ctor_args.sa) =>
        /\ ctor_error = "InvalidConfigError" <=> Supplied = {}
        /\ ctor_error = "InvalidConfigError"
              => store = NoStore /\ created_engines = <<>>
        /\ ctor_pc = "failed" => store = NoStore
        /\ ctor_pc = "constructed" =>
              /\ store.engine # None
              /\ store.scoped_db_session = Some([bind |-> store.engine[1]])
              /\ IF HighestPriority = "engine"
                 THEN store.engine = ctor_args.engine /\ created_engines = <<>>
                 ELSE /\ store.engine[1].source = HighestPriority
                      /\ created_engines = <<store.engine[1]>>

\* A store constructed from credentials with a connection string and a url
\* supplied too.
C10_Witness ==
    /\ ctor_pc = "constructed"
    /\ Supplied = {"credentials", "connection_string", "url"}
    /\ store.engine[1].source = "credentials"

\* __init__ went to the key-pair branch of _build_engine: credentials with a
\* drivername and a private_key_path, and no engine.
KeyPairAuth ==
    /\ CtorEnded
    /\ ctor_args.sa
    /\ ctor_args.engine = None
    /\ ctor_args.credentials # None
    /\ {"drivername", "private_key_path"} \subseteq DOMAIN ctor_args.credentials[1]

\* C20: with key-pair credentials, a wrong passphrase makes __init__ fail with
\* DatasourceKeyPairAuthBadPassphraseError, another decryption failure
\* propagates as the ValueError it is, and a key that loads gives a store,
\* also when the credentials have no private_key_passphrase entry.
C20_KeyPairAuthErrors ==
    KeyPairAuth =>
        /\ key_file = "incorrect password"
              => ctor_error = "DatasourceKeyPairAuthBadPassphraseError"
        /\ key_file = "invalid key" => ctor_error = "ValueError"
        /\ key_file = "loaded" => ctor_pc = "constructed"

-----------------------------------------------------------------------------
(* Variable substitution (great_expectations.data_context.util) *)

\* A string is a sequence of pieces: a character of plain text, or a token
\* ${NAME}.  A config tree is a string, another scalar, a mapping or a
\* sequence of config trees.
Char(c) == [tok |-> FALSE, s |-> c]
Token(name) == [tok |-> TRUE, s |-> name]

Str(pieces) == [kind |-> "str", v |-> pieces]
Scalar(n) == [kind |-> "int", v |-> n]
Mapping(f) == [kind |-> "map", v |-> f]
List(q) == [kind |-> "seq", v |-> q]

RECURSIVE Flatten(_)
Flatten(seqs) == IF seqs = <<>> THEN <<>> ELSE Head(seqs) \o Flatten(Tail(seqs))

\* substitute_config_variable that replaces the first token it resolves and
\* no other.
substitute_config_variable_first_match(template_str, config_variables_dict) ==
    LET resolved == {i \in 1..Len(template_str) :
                        /\ template_str[i].tok
                        /\ template_str[i].s \in DOMAIN config_variables_dict}
    IN  Flatten([i \in 1..Len(template_str) |->
                    IF i \in resolved /\ \A j \in resolved : i <= j
                    THEN config_variables_dict[template_str[i].s]
                    ELSE <<template_str[i]>>])

\* substitute_config_variable: every ${NAME} whose NAME is in the variables
\* is replaced by the variable's value; any other token stays as it is.
substitute_config_variable(template_str, config_variables_dict) ==
    Flatten([i \in 1..Len(template_str) |->
                IF template_str[i].tok /\ template_str[i].s \in DOMAIN config_variables_dict
                THEN config_variables_dict[template_str[i].s]
                ELSE <<template_str[i]>>])

\* substitute_all_config_variables: walks mappings and sequences and
\* substitutes in the string leaves; the result is a new tree.
RECURSIVE substitute_all_config_variables(_, _)
substitute_all_config_variables(data, replace_variables_dict) ==
    IF data.kind = "map"
    THEN Mapping([k \in DOMAIN data.v |->
                     substitute_all_config_variables(data.v[k], replace_variables_dict)])
    ELSE IF data.kind = "seq"
    THEN List([i \in 1..Len(data.v) |->
                  substitute_all_config_variables(data.v[i], replace_variables_dict)])
    ELSE IF data.kind = "str"
    THEN Str(substitute_config_variable(data.v, replace_variables_dict))
    ELSE data

\* The names of the tokens in a config tree.
RECURSIVE TokensOf(_)
TokensOf(data) ==
    IF data.kind = "map"
    THEN UNION {TokensOf(data.v[k]) : k \in DOMAIN data.v}
    ELSE IF data.kind = "seq"
    THEN UNION {TokensOf(data.v[i]) : i \in 1..Len(data.v)}
    ELSE IF data.kind = "str"
    THEN {data.v[i].s : i \in {j \in 1..Len(data.v) : data.v[j].tok}}
    ELSE {}

VariableNames == {"A", "B"}

\* The values of variables: plain text, or text with a token in it.
VariableValues == {<<Char("v")>>, <<Char("w"), Char("w")>>, <<Token("B")>>}

NoVariables == [n \in {} |-> <<>>]

\* The variables mappings: every mapping of some of the names to values.
VariableMappings == UNION {[D -> VariableValues] : D \in SUBSET VariableNames}

ConfigStrings ==
    { <<Char("a")>>, <<Token("A")>>, <<Token("B")>>, <<Token("C")>>,
      <<Char("a"), Token("A"), Char("b")>>, <<Token("A"), Token("B")>>,
      <<Token("A"), Token("C")>> }

ConfigTrees ==
    {Str(q) : q \in ConfigStrings}
        \cup {Scalar(1)}
        \cup {Mapping([k \in {"class_name", "arg"} |->
                          IF k = "class_name" THEN Str(<<Char("K")>>) ELSE Str(q)])
                : q \in ConfigStrings}
        \cup {List(<<Str(q), Scalar(1), Mapping([k \in {"x"} |-> Str(<<Token("A")>>)])>>)
                : q \in ConfigStrings}

\* substitute(x, vars), applied to x and then to its result; x is the
\* caller's tree, which the function does not write to.
substitute_first ==
    /\ sub_pc = "x"
    /\ sub_once' = substitute_all_config_variables(sub_x, sub_vars)
    /\ sub_pc' = "once"
    /\ UNCHANGED <<sub_x, sub_vars, sub_twice>>
    /\ UNCHANGED <<storeVars, translateVars, ctorVars, contextVars>>

substitute_second ==
    /\ sub_pc = "once"
    /\ sub_twice' = substitute_all_config_variables(sub_once, sub_vars)
    /\ sub_pc' = "twice"
    /\ UNCHANGED <<sub_x, sub_vars, sub_once>>
    /\ UNCHANGED <<storeVars, translateVars, ctorVars, contextVars>>

SubstituteInit ==
    /\ StoreInit
    /\ StoreConstructed
    /\ threads = <<>>
    /\ NoTranslation
    /\ NoContext
    /\ sub_pc = "x"
    /\ sub_x \in ConfigTrees
    /\ sub_vars \in VariableMappings
    /\ sub_once = <<>>
    /\ sub_twice = <<>>

SubstituteNext == substitute_first \/ substitute_second

SubstituteSpec == SubstituteInit /\ [][SubstituteNext]_vars

\* All tokens of the tree resolve in the variables.
AllResolve == TokensOf(sub_x) \subseteq DOMAIN sub_vars

\* C19 as stated: when all tokens of x resolve, substituting twice gives what
\* substituting once gives; a token whose name is not in the variables is
\* still in the tree after one and after two substitutions; x is as it was.
C19_SubstitutionIdempotent ==
    sub_pc = "twice" =>
        /\ AllResolve => sub_twice = sub_once
        /\ TokensOf(sub_x) \ DOMAIN sub_vars \subseteq TokensOf(sub_once) \cap TokensOf(sub_twice)
        /\ sub_x \in ConfigTrees

\* No value that is substituted into x has a token that the variables resolve.
ValuesResolved ==
    \A n \in TokensOf(sub_x) \cap DOMAIN sub_vars :
        TokensOf(Str(sub_vars[n])) \cap DOMAIN sub_vars = {}

\* C19, amended: when all tokens of x resolve and the values substituted for
\* them hold no token that the variables resolve, substituting twice gives what
\* substituting once gives, and no token of x is left; a token whose name is
\* not in the variables is still in the tree after one and after two
\* substitutions; x is as it was.
C19_IdempotentOnResolvedValues ==
    sub_pc = "twice" =>
        /\ (AllResolve /\ ValuesResolved) =>
              /\ sub_twice = sub_once
              /\ TokensOf(sub_once) \cap TokensOf(sub_x) = {}
        /\ TokensOf(sub_x) \ DOMAIN sub_vars \subseteq TokensOf(sub_once) \cap TokensOf(sub_twice)
        /\ sub_x \in ConfigTrees

\* A tree with two tokens, both resolved to plain text, substituted twice.
C19_Witness ==
    /\ sub_pc = "twice"
    /\ Cardinality(TokensOf(sub_x)) = 2
    /\ AllResolve
    /\ TokensOf(sub_once) = {}
    /\ sub_once # sub_x

-----------------------------------------------------------------------------
(* The data context (data_context/data_context.py) *)

\* The most calls made on the project: constructions of a context and calls
\* of its methods.
MaxCalls == 3

DatasourceNames == <<"d1">>
StoreNames == <<"s1">>
ValidationOperatorNames == <<"o1">>

\* A component config {class_name: ..., arg: ...}.
ComponentConfig(class_name, arg) ==
    Mapping([k \in {"class_name", "arg"} |-> IF k = "class_name" THEN Str(class_name)
                                                                 ELSE Str(arg)])

\* Configs of the class K, which exists, with and without a token, and of
\* the class X, which does not exist.
ComponentConfigs ==
    { ComponentConfig(<<Char("K")>>, <<Char("a")>>),
      ComponentConfig(<<Char("K")>>, <<Token("A")>>),
      ComponentConfig(<<Char("X")>>, <<Char("a")>>) }

\* The kwargs of add_datasource: the configs above and one of the class F,
\* which exists and whose constructor raises.
DatasourceConfigs == ComponentConfigs \cup {ComponentConfig(<<Char("F")>>, <<Char("a")>>)}

EmptySection == [n \in {} |-> <<>>]
Put(f, k, v) == [x \in (DOMAIN f) \cup {k} |-> IF x = k THEN v ELSE f[x]]

\* The values of config_variables_file_path.
VariablesPaths == {<<Char("p")>>, <<Token("A"), Char("p")>>}

\* A file: absent, present with its content, or one that open() fails on
\* with an error other than ENOENT.
FileAbsent == [state |-> "absent", vars |-> NoVariables]
FileUnreadable == [state |-> "unreadable", vars |-> NoVariables]
FilePresent(content) == [state |-> "present", vars |-> content]

Sections == {"datasources", "stores", "validation_operators"}

\* The datasources, stores and validation_operators of a project config.
SectionsOf(config) == [k \in Sections |-> config[k]]

Ok(c, value) == [error |-> "none", c |-> c, value |-> value]
Raise(c, error) == [error |-> error, c |-> c, value |-> None]

\* hasattr(self, "root_directory"), line 489: root_directory is a property of
\* the class (lines 435-439) that returns self._context_root_directory, which
\* __init__ sets, to None when it has no context_root_dir, before anything
\* is loaded (lines 260-264).
hasattr_root_directory(c) == "root_directory" \in DOMAIN c

\* _load_config_variables_file that raises when the file does not exist.
load_config_variables_file_raises(c) ==
    LET config_variables_file_path == c.project_config.config_variables_file_path
    IN  IF config_variables_file_path # None
        THEN LET file == c.variables_file[config_variables_file_path[1]]
             IN  IF file.state = "present" THEN Ok(c, file.vars) ELSE Raise(c, "IOError")
        ELSE Ok(c, NoVariables)

\* _load_config_variables_file; c is the context and its files.
load_config_variables_file(c) ==
    LET config_variables_file_path == c.project_config.config_variables_file_path
    IN  IF ~ hasattr_root_directory(c) THEN Ok(c, NoVariables)
        ELSE IF config_variables_file_path # None
        THEN IF c.root_directory = None THEN Raise(c, "TypeError")
             ELSE LET path == substitute_config_variable(config_variables_file_path[1],
                                                         NoVariables)
                      file == c.variables_file[path]
                  IN  IF file.state = "present" THEN Ok(c, file.vars)
                      ELSE IF file.state = "absent" THEN Ok(c, NoVariables)
                      ELSE Raise(c, "IOError")
        ELSE Ok(c, NoVariables)

\* get_config_with_variables_substituted
\* (_project_config_with_variables_substituted): computed from the raw
\* config and the variables file at every call.
get_config_with_variables_substituted(c) ==
    LET loaded == load_config_variables_file(c)
    IN  IF loaded.error # "none" THEN loaded
        ELSE Ok(c, [k \in Sections |->
                       substitute_all_config_variables(Mapping(c.project_config[k]),
                                                       loaded.value).v])

\* instantiate_class_from_config: resolves the class and constructs the
\* n-th instance from the config, or fails when the class does not exist.
instantiate_class_from_config(config, runtime_environment, n) ==
    IF "class_name" \in DOMAIN config.v /\ config.v["class_name"] = Str(<<Char("K")>>)
    THEN [error |-> "none",
          value |-> [id |-> n, config |-> config, runtime_environment |-> runtime_environment]]
    ELSE IF "class_name" \in DOMAIN config.v /\ config.v["class_name"] = Str(<<Char("F")>>)
    THEN [error |-> "ConstructionError", value |-> None]
    ELSE [error |-> "ClassResolutionError", value |-> None]

\* DataContext._save_project_config
save_project_config(c) == [c EXCEPT !.yml = c.project_config]

\* The override that saves the project config also when the base method
\* raised.
saved_always(is_data_context, r) ==
    IF is_data_context THEN [r EXCEPT !.c = save_project_config(@)] ELSE r

\* The override of a method in DataContext: the call of the base method, which
\* ended as r, and then _save_project_config; a base method that raises does
\* not get to the save.
saved_after(is_data_context, r) ==
    IF is_data_context /\ r.error = "none"
    THEN [r EXCEPT !.c = save_project_config(@)]
    ELSE r

\* add_store that caches the store it constructed and does not keep the
\* config it constructed it from.
ConfigOnlyDataContext_add_store_cache_only(c, store_name, store_config) ==
    LET c1 == [c EXCEPT !.project_config.stores = Put(@, store_name, store_config)]
        view == get_config_with_variables_substituted(c1)
    IN  IF view.error # "none" THEN Raise(c, view.error)
        ELSE LET new_store == instantiate_class_from_config(view.value.stores[store_name],
                                                            "root_directory",
                                                            c.instances + 1)
             IN  IF new_store.error # "none" THEN Raise(c, new_store.error)
                 ELSE Ok([c EXCEPT !.stores = Put(@, store_name, new_store.value),
                                   !.instances = @ + 1,
                                   !.constructed = Append(@, <<"stores", store_name>>)],
                         Some(new_store.value))

\* ConfigOnlyDataContext.add_store
ConfigOnlyDataContext_add_store(c, store_name, store_config) ==
    LET c1 == [c EXCEPT !.project_config.stores = Put(@, store_name, store_config)]
        view == get_config_with_variables_substituted(c1)
    IN  IF view.error # "none" THEN Raise(c1, view.error)
        ELSE LET new_store == instantiate_class_from_config(view.value.stores[store_name],
                                                            "root_directory",
                                                            c1.instances + 1)
             IN  IF new_store.error # "none" THEN Raise(c1, new_store.error)
                 ELSE Ok([c1 EXCEPT !.stores = Put(@, store_name, new_store.value),
                                    !.instances = @ + 1,
                                    !.constructed = Append(@, <<"stores", store_name>>)],
                         Some(new_store.value))

\* DataContext.add_store, for a file-backed context, or the method it
\* overrides.
add_store(c, is_data_context, store_name, store_config) ==
    saved_after(is_data_context,
                ConfigOnlyDataContext_add_store(c, store_name, store_config))

\* ConfigOnlyDataContext.add_validation_operator, which DataContext does not
\* override.
add_validation_operator(c, validation_operator_name, validation_operator_config) ==
    LET c1 == [c EXCEPT !.project_config.validation_operators =
                            Put(@, validation_operator_name, validation_operator_config)]
        view == get_config_with_variables_substituted(c1)
    IN  IF view.error # "none" THEN Raise(c1, view.error)
        ELSE LET new_validation_operator ==
                     instantiate_class_from_config(
                         view.value.validation_operators[validation_operator_name],
                         "data_context", c1.instances + 1)
             IN  IF new_validation_operator.error # "none"
                 THEN Raise(c1, new_validation_operator.error)
                 ELSE Ok([c1 EXCEPT !.validation_operators =
                                        Put(@, validation_operator_name,
                                            new_validation_operator.value),
                                    !.instances = @ + 1,
                                    !.constructed =
                                        Append(@, <<"validation_operators",
                                                    validation_operator_name>>)],
                         Some(new_validation_operator.value))

\* _build_datasource_from_config: puts the name into the config it is given
\* and constructs the datasource from it.
build_datasource_from_config(c, name, config) ==
    LET named == Mapping(Put(config.v, "name", Str(<<Char(name)>>)))
        datasource == instantiate_class_from_config(named, "data_context", c.instances + 1)
    IN  IF datasource.error # "none" THEN Raise(c, datasource.error)
        ELSE Ok([c EXCEPT !.instances = @ + 1,
                          !.constructed = Append(@, <<"datasources", name>>)],
                datasource.value)

\* load_class, for the classes of the model.
load_class(class_name) == class_name \in {Some(Str(<<Char("K")>>)), Some(Str(<<Char("F")>>))}

\* ConfigOnlyDataContext.add_datasource that writes the raw config before it
\* resolves the class.
ConfigOnlyDataContext_add_datasource_writes_first(c, name, initialize, kwargs) ==
    LET c1 == [c EXCEPT !.project_config.datasources = Put(@, name, kwargs)]
    IN  IF ~ load_class(Get(kwargs.v, "class_name"))
        THEN Raise(c1, "ClassResolutionError")
        ELSE Ok(c1, None)

\* ConfigOnlyDataContext.add_datasource that constructs the datasource
\* whatever initialize is.
ConfigOnlyDataContext_add_datasource_eager(c, name, initialize, kwargs) ==
    IF ~ load_class(Get(kwargs.v, "class_name"))
    THEN Raise(c, "ClassResolutionError")
    ELSE LET c1 == [c EXCEPT !.project_config.datasources = Put(@, name, kwargs)]
             view == get_config_with_variables_substituted(c1)
         IN  IF view.error # "none" THEN Raise(c1, view.error)
             ELSE LET datasource ==
                          build_datasource_from_config(c1, name, view.value.datasources[name])
                  IN  IF datasource.error # "none" THEN datasource
                      ELSE Ok([datasource.c EXCEPT
                                   !.datasources = Put(@, name, datasource.value)],
                              Some(datasource.value))

\* ConfigOnlyDataContext.add_datasource; the class has no build_configuration.
ConfigOnlyDataContext_add_datasource(c, name, initialize, kwargs) ==
    IF ~ load_class(Get(kwargs.v, "class_name"))
    THEN Raise(c, "ClassResolutionError")
    ELSE LET config == kwargs
             c1 == [c EXCEPT !.project_config.datasources = Put(@, name, config)]
         IN  IF initialize
             THEN LET view == get_config_with_variables_substituted(c1)
                  IN  IF view.error # "none" THEN Raise(c1, view.error)
                      ELSE LET datasource ==
                                   build_datasource_from_config(c1, name,
                                                                view.value.datasources[name])
                           IN  IF datasource.error # "none" THEN datasource
                               ELSE Ok([datasource.c EXCEPT
                                            !.datasources = Put(@, name, datasource.value)],
                                       Some(datasource.value))
             ELSE Ok(c1, None)

\* DataContext.add_datasource, for a file-backed context, or the method it
\* overrides.
add_datasource(c, is_data_context, name, initialize, kwargs) ==
    saved_after(is_data_context,
                ConfigOnlyDataContext_add_datasource(c, name, initialize, kwargs))

\* get_datasource that constructs the datasource at every call.
get_datasource_uncached(c, datasource_name) ==
    LET view == get_config_with_variables_substituted(c)
    IN  IF view.error # "none" THEN Raise(c, view.error)
        ELSE IF datasource_name \in DOMAIN view.value.datasources
        THEN LET datasource ==
                     build_datasource_from_config(c, datasource_name,
                                                  view.value.datasources[datasource_name])
             IN  IF datasource.error # "none" THEN datasource
                 ELSE Ok(datasource.c, Some(datasource.value))
        ELSE Raise(c, "ValueError")

\* ConfigOnlyDataContext.get_datasource
get_datasource(c, datasource_name) ==
    IF datasource_name \in DOMAIN c.datasources
    THEN Ok(c, Some(c.datasources[datasource_name]))
    ELSE LET view == get_config_with_variables_substituted(c)
         IN  IF view.error # "none" THEN Raise(c, view.error)
             ELSE IF datasource_name \in DOMAIN view.value.datasources
             THEN LET datasource_config == view.value.datasources[datasource_name]
                      datasource == build_datasource_from_config(c, datasource_name,
                                                                 datasource_config)
                  IN  IF datasource.error # "none" THEN datasource
                      ELSE Ok([datasource.c EXCEPT
                                   !.datasources = Put(@, datasource_name, datasource.value)],
                              Some(datasource.value))
             ELSE Raise(c, "ValueError")

\* save_config_variable that writes the variables back as it loaded them.
save_config_variable_unset(c, config_variable_name, value) ==
    LET loaded == load_config_variables_file(c)
    IN  IF loaded.error # "none" THEN loaded
        ELSE LET config_variables_filepath == c.project_config.config_variables_file_path
             IN  IF config_variables_filepath = None THEN Raise(c, "InvalidConfigError")
                 ELSE Ok([c EXCEPT !.variables_file[config_variables_filepath[1]] =
                                       FilePresent(loaded.value)],
                         None)

\* ConfigOnlyDataContext.save_config_variable
save_config_variable(c, config_variable_name, value) ==
    LET loaded == load_config_variables_file(c)
    IN  IF loaded.error # "none" THEN loaded
        ELSE LET config_variables == Put(loaded.value, config_variable_name, value)
                 config_variables_filepath == c.project_config.config_variables_file_path
             IN  IF config_variables_filepath = None THEN Raise(c, "InvalidConfigError")
                 ELSE Ok([c EXCEPT !.variables_file[config_variables_filepath[1]] =
                                       FilePresent(config_variables)],
                         None)

\* The body of a loop of __init__ for one component: get_datasource for a
\* datasource, add_store for a store (in _init_stores), add_validation_operator
\* for a validation operator.
init_one(c, is_data_context, section, name, config) ==
    IF section = "datasources" THEN get_datasource(c, name)
    ELSE IF section = "stores" THEN add_store(c, is_data_context, name, config)
    ELSE add_validation_operator(c, name, config)

\* The loop of __init__ that goes on to the next component when the
\* construction of one fails.
RECURSIVE init_each_continues(_, _, _, _, _)
init_each_continues(c, is_data_context, section, names, configs) ==
    IF names = <<>> THEN Ok(c, None)
    ELSE IF Head(names) \notin DOMAIN configs
    THEN init_each_continues(c, is_data_context, section, Tail(names), configs)
    ELSE init_each_continues(init_one(c, is_data_context, section, Head(names),
                                      configs[Head(names)]).c,
                             is_data_context, section, Tail(names), configs)

RECURSIVE init_each(_, _, _, _, _)

\* The rest of a loop of __init__ after the construction of one component
\* ended as r: an exception leaves the loop and __init__.
init_rest(r, is_data_context, section, names, configs) ==
    IF r.error # "none" THEN r
    ELSE init_each(r.c, is_data_context, section, names, configs)

\* One of the three loops of __init__: over the datasources, the stores or
\* the validation operators of the substituted config, in the order of names.
init_each(c, is_data_context, section, names, configs) ==
    IF names = <<>> THEN Ok(c, None)
    ELSE IF Head(names) \notin DOMAIN configs
    THEN init_each(c, is_data_context, section, Tail(names), configs)
    ELSE init_rest(init_one(c, is_data_context, section, Head(names),
                            configs[Head(names)]),
                   is_data_context, section, Tail(names), configs)

\* __init__ from the loop over the validation operators, after the stores
\* were constructed, which ended as r.
init_validation_operators(r, is_data_context) ==
    IF r.error # "none" THEN r
    ELSE init_each(r.c, is_data_context, "validation_operators", ValidationOperatorNames,
                   get_config_with_variables_substituted(r.c).value.validation_operators)

\* __init__ from _init_stores, after the datasources were constructed, which
\* ended as r.
init_stores(r, is_data_context) ==
    IF r.error # "none" THEN r
    ELSE init_validation_operators(
             init_each(r.c, is_data_context, "stores", StoreNames,
                       get_config_with_variables_substituted(r.c).value.stores),
             is_data_context)

\* __init__ from the read of plugins_directory in the substituted config,
\* which ended as r, and the loop over the datasources.
init_datasources(r, is_data_context) ==
    IF r.error # "none" THEN r
    ELSE init_stores(init_each(r.c, is_data_context, "datasources", DatasourceNames,
                               r.value.datasources),
                     is_data_context)

ALLOWED_DELIMITERS == {".", "/"}

\* The end of __init__, after the components were constructed, which ended as
\* r: the check of data_asset_name_delimiter.
init_delimiter(r, data_asset_name_delimiter) ==
    IF r.error # "none" THEN r
    ELSE IF data_asset_name_delimiter \notin ALLOWED_DELIMITERS
    THEN Raise(r.c, "DataContextError")
    ELSE r

\* validate_config on a project config given as a dict: the ValidationError
\* of the schema's load is raised again, and the result is True otherwise.
validate_config(given_config) ==
    IF given_config.schema_valid THEN "none" ELSE "ValidationError"

\* ConfigOnlyDataContext.__init__ on the project config it is given:
\* validates it, reads plugins_directory from the substituted config,
\* constructs the datasources, the stores and the validation operators, and
\* then checks the delimiter.
ConfigOnlyDataContext_init(c, is_data_context, given_config, data_asset_name_delimiter) ==
    IF validate_config(given_config) # "none"
    THEN Raise(c, validate_config(given_config))
    ELSE init_delimiter(
             init_datasources(
                 get_config_with_variables_substituted(
                     [c EXCEPT !.project_config = given_config,
                               !.datasources = EmptySection,
                               !.stores = EmptySection,
                               !.validation_operators = EmptySection,
                               !.instances = 0,
                               !.constructed = <<>>]),
                 is_data_context),
             data_asset_name_delimiter)

\* DataContext._load_project_config: the project config of
\* great_expectations.yml, or the error of DataContextConfig for a file that
\* does not have the schema.
load_project_config(c) ==
    IF c.yml.schema_valid THEN Ok(c, c.yml)
    ELSE Raise(c, "InvalidDataContextConfigError")

\* DataContext.__init__, which loads the project config and calls
\* ConfigOnlyDataContext.__init__ with it.
DataContext_init(c, data_asset_name_delimiter) ==
    IF load_project_config(c).error # "none" THEN load_project_config(c)
    ELSE ConfigOnlyDataContext_init(c, TRUE, c.yml, data_asset_name_delimiter)

\* The context and its files as one value.
Context ==
    [project_config |-> project_config,
     datasources |-> datasources,
     stores |-> stores,
     validation_operators |-> validation_operators,
     yml |-> yml,
     variables_file |-> variables_file,
     instances |-> instances,
     root_directory |-> self_context_root_directory,
     constructed |-> <<>>]

NoCall ==
    [op |-> "none", name |-> "", config |-> None, initialize |-> FALSE, error |-> "none",
     value |-> None, before |-> None, constructed |-> <<>>, after_add_store |-> None,
     count |-> 0]

\* The state after a call on the context that ended as r.
CallEndedAs(r, call, name, config, initialize) ==
    /\ last.count < MaxCalls
    /\ project_config' = r.c.project_config
    /\ datasources' = r.c.datasources
    /\ stores' = r.c.stores
    /\ validation_operators' = r.c.validation_operators
    /\ yml' = r.c.yml
    /\ variables_file' = r.c.variables_file
    /\ instances' = r.c.instances
    /\ last' = [NoCall EXCEPT !.op = call, !.name = name, !.config = config,
                              !.initialize = initialize, !.error = r.error,
                              !.value = r.value, !.before = Some(Context),
                              !.constructed = r.c.constructed,
                              !.count = last.count + 1,
                              !.after_add_store =
                                  IF /\ call = "init"
                                     /\ last.op = "add_store"
                                     /\ last.error = "none"
                                  THEN Some([name |-> last.name, config |-> last.config[1]])
                                  ELSE None]
    /\ UNCHANGED <<storeVars, translateVars, ctorVars, substVars, frames, history,
                   self_context_root_directory, expectations_store, suite_call>>

\* The state after a call that leaves the order of the config's keys alone.
CallEnded(r, call, name, config, initialize) ==
    /\ CallEndedAs(r, call, name, config, initialize)
    /\ UNCHANGED <<key_order, self_data_asset_name_delimiter, active_environment_name>>

\* The state after a call that constructs a context with the delimiter: line
\* 291 sets the attribute when nothing was raised before it; a constructor
\* that raised has made no context.
Constructed_with(r, call, data_asset_name_delimiter, initialize) ==
    /\ CallEndedAs(r, call, "", Some(data_asset_name_delimiter), initialize)
    /\ self_data_asset_name_delimiter' =
          IF last'.error = "none" THEN Some(data_asset_name_delimiter) ELSE None
    /\ active_environment_name' =
          IF file_backed /\ last'.error = "none" THEN Some("default") ELSE None
    /\ UNCHANGED key_order

Plain == ComponentConfig(<<Char("K")>>, <<Char("a")>>)
WithToken == ComponentConfig(<<Char("K")>>, <<Token("A")>>)
NoSuchClass == ComponentConfig(<<Char("X")>>, <<Char("a")>>)

ProjectConfig(datasource, a_store, validation_operator, path) ==
    [datasources |-> IF datasource = None THEN EmptySection
                     ELSE Put(EmptySection, "d1", datasource[1]),
     stores |-> IF a_store = None THEN EmptySection ELSE Put(EmptySection, "s1", a_store[1]),
     validation_operators |-> IF validation_operator = None THEN EmptySection
                              ELSE Put(EmptySection, "o1", validation_operator[1]),
     config_variables_file_path |-> path,
     schema_valid |-> TRUE]

\* A project config that does not have the schema of a project config.
InvalidProjectConfig ==
    [ProjectConfig(None, None, None, None) EXCEPT !.schema_valid = FALSE]

\* The values of data_asset_name_delimiter: the two that are allowed and one
\* that is not.
AllDelimiters == {"/", ".", "-"}

\* The values of data_asset_name_delimiter a context is constructed with
\* where the delimiter it gets does not matter: the default and one that is
\* not allowed.
Delimiters == {"/", "-"}

\* The project configs a context starts from: one that is not valid; or no
\* component, or a datasource, a store and a validation operator of which one
\* may be of a class that does not exist, and any config_variables_file_path.
ProjectConfigs ==
    {InvalidProjectConfig} \cup
    { ProjectConfig(k[1], k[2], k[3], path) :
        k \in { <<None, None, None>>,
                <<Some(Plain), Some(Plain), Some(Plain)>>,
                <<Some(WithToken), Some(WithToken), Some(WithToken)>>,
                <<Some(NoSuchClass), Some(Plain), Some(Plain)>>,
                <<Some(Plain), Some(NoSuchClass), Some(Plain)>>,
                <<Some(WithToken), Some(Plain), Some(NoSuchClass)>>,
                <<Some(WithToken), None, None>> },
        path \in Opt(VariablesPaths) }

\* The variables the calls save.
SavedNames == {"A"}
SavedValues == {<<Char("w"), Char("w")>>}

\* The variables files a context starts with, when a path is configured.
VariablesFiles == {FileAbsent, FileUnreadable, FilePresent(Put(NoVariables, "A", <<Char("v")>>))}

\* The project config of the template that create writes as
\* great_expectations.yml: stores and validation operators, no datasource,
\* and the variables file of the uncommitted directory.
PROJECT_TEMPLATE == ProjectConfig(None, Some(Plain), Some(Plain), Some(<<Char("p")>>))

\* The variables of the template that create writes as config_variables.yml.
CONFIG_VARIABLES_TEMPLATE == NoVariables

\* The path of uncommitted/config_variables.yml.
ConfigVariablesYml == <<Char("p")>>

\* create(project_root_dir): fails when project_root_dir is not a directory;
\* otherwise writes the template of great_expectations.yml when that file does
\* not exist, the template of config_variables.yml when that file does not
\* exist, and constructs the context of the directory (the directories and
\* notebooks it makes are not part of the state).
ConfigOnlyDataContext_create(c, is_dir) ==
    IF ~ is_dir THEN Raise(c, "DataContextError")
    ELSE DataContext_init(
             [c EXCEPT !.yml = IF @ # None THEN @ ELSE PROJECT_TEMPLATE,
                       !.variables_file[ConfigVariablesYml] =
                           IF @.state # "absent" THEN @
                           ELSE FilePresent(CONFIG_VARIABLES_TEMPLATE)],
             "/")

\* DataContext.create(project_root_dir), the first call on a project directory.
context_create ==
    /\ ctx_pc = "off"
    /\ file_backed
    /\ \E is_dir \in BOOLEAN :
          CallEndedAs(ConfigOnlyDataContext_create(Context, is_dir), "create", "", None, is_dir)
    /\ self_data_asset_name_delimiter' = IF last'.error = "none" THEN Some("/") ELSE None
    /\ active_environment_name' = IF last'.error = "none" THEN Some("default") ELSE None
    /\ UNCHANGED key_order
    /\ ctx_pc' = IF last'.error = "none" THEN "ready" ELSE "failed"
    /\ as_given' = IF last'.error = "DataContextError" THEN as_given ELSE SectionsOf(yml')
    /\ UNCHANGED file_backed

\* DataContext(context_root_dir), which reads the project config from
\* great_expectations.yml, or ConfigOnlyDataContext(project_config, ...); on a
\* directory that has great_expectations.yml.
\* The construction of a context with one of the given delimiters.
construct_context(delimiters) ==
    /\ \E data_asset_name_delimiter \in delimiters :
          Constructed_with(IF file_backed
                           THEN DataContext_init(Context, data_asset_name_delimiter)
                           ELSE ConfigOnlyDataContext_init(Context, FALSE, yml,
                                                           data_asset_name_delimiter),
                           "init", data_asset_name_delimiter, FALSE)
    /\ ctx_pc' = IF last'.error = "none" THEN "ready" ELSE "failed"
    /\ as_given' = SectionsOf(yml)
    /\ UNCHANGED file_backed

context_init ==
    /\ ctx_pc = "off" \/ file_backed
    /\ yml # None
    /\ construct_context(Delimiters)

context_add_store ==
    /\ ctx_pc = "ready"
    /\ \E store_name \in Range(StoreNames), store_config \in ComponentConfigs :
         LET r == add_store(Context, file_backed, store_name, store_config)
         IN  /\ CallEnded(r, "add_store", store_name, Some(store_config), FALSE)
             /\ as_given' = [as_given EXCEPT !.stores = Put(@, store_name, store_config)]
    /\ UNCHANGED <<ctx_pc, file_backed>>

context_add_validation_operator ==
    /\ ctx_pc = "ready"
    /\ \E name \in Range(ValidationOperatorNames), config \in ComponentConfigs :
         LET r == add_validation_operator(Context, name, config)
         IN  /\ CallEnded(r, "add_validation_operator", name, Some(config), FALSE)
             /\ as_given' = [as_given EXCEPT !.validation_operators = Put(@, name, config)]
    /\ UNCHANGED <<ctx_pc, file_backed>>

context_add_datasource ==
    /\ ctx_pc = "ready"
    /\ \E name \in Range(DatasourceNames), initialize \in BOOLEAN, kwargs \in DatasourceConfigs :
         LET r == add_datasource(Context, file_backed, name, initialize, kwargs)
         IN  /\ CallEnded(r, "add_datasource", name, Some(kwargs), initialize)
             /\ as_given' = IF load_class(Get(kwargs.v, "class_name"))
                            THEN [as_given EXCEPT !.datasources = Put(@, name, kwargs)]
                            ELSE as_given
    /\ UNCHANGED <<ctx_pc, file_backed>>

context_get_datasource ==
    /\ ctx_pc = "ready"
    /\ \E datasource_name \in Range(DatasourceNames) :
         LET r == get_datasource(Context, datasource_name)
         IN  /\ CallEnded(r, "get_datasource", datasource_name, None, FALSE)
    /\ UNCHANGED <<ctx_pc, file_backed, as_given>>

context_save_config_variable ==
    /\ ctx_pc = "ready"
    /\ \E config_variable_name \in SavedNames, value \in SavedValues :
         CallEnded(save_config_variable(Context, config_variable_name, value),
                   "save_config_variable", config_variable_name, Some(value), FALSE)
    /\ UNCHANGED <<ctx_pc, file_backed, as_given>>

context_load_config_variables_file ==
    /\ ctx_pc = "ready"
    /\ CallEnded(load_config_variables_file(Context), "load_config_variables_file", "",
                 None, FALSE)
    /\ UNCHANGED <<ctx_pc, file_backed, as_given>>

\* A project on disk, or a project config in memory, with no context yet.
ProjectInit ==
    /\ StoreInit
    /\ StoreConstructed
    /\ threads = <<>>
    /\ NoTranslation
    /\ NoSubstitution
    /\ ctx_pc = "off"
    /\ file_backed \in BOOLEAN
    /\ yml \in ProjectConfigs \cup (IF file_backed THEN {None} ELSE {})
    /\ variables_file \in [VariablesPaths -> VariablesFiles]
    /\ \A path \in VariablesPaths :
          (IF yml = None THEN path # ConfigVariablesYml
           ELSE yml.config_variables_file_path # Some(path)) =>
              variables_file[path] = FileAbsent
    /\ project_config = <<>>
    /\ datasources = EmptySection
    /\ stores = EmptySection
    /\ validation_operators = EmptySection
    /\ instances = 0
    /\ as_given = <<>>
    /\ last = NoCall
    /\ frames = <<>>
    /\ history = <<>>
    /\ key_order = <<>>
    /\ self_data_asset_name_delimiter = None
    /\ active_environment_name = None
    /\ NoSuites

\* The same, for a context that is constructed with a context_root_dir.
ContextInit ==
    /\ ProjectInit
    /\ self_context_root_directory = Some("root")

ContextNext ==
    \/ context_create
    \/ context_init
    \/ context_add_store
    \/ context_add_validation_operator
    \/ context_add_datasource
    \/ context_get_datasource
    \/ context_save_config_variable
    \/ context_load_config_variables_file

ContextSpec == ContextInit /\ [][ContextNext]_vars

ContextTypeOK == ctx_pc \in {"off", "ready", "failed"}

-----------------------------------------------------------------------------
(* Properties of the data context *)

AddCalls == {"add_datasource", "add_store", "add_validation_operator"}

\* The section an add_* call writes to.
SectionOf(call) ==
    IF call = "add_datasource" THEN "datasources"
    ELSE IF call = "add_store" THEN "stores"
    ELSE "validation_operators"

\* The registry of a section, in the context c.
RegistryOf(c, section) == c[section]

\* The context and its files before the last call.
Before == last.before[1]

\* C11: in a context that is ready, every entry of the raw config under
\* datasources, stores and validation_operators is the config as it was
\* loaded or as it was passed to the add_* call, tokens included.
C11_RawConfigWriteThrough ==
    ctx_pc = "ready" => SectionsOf(project_config) = as_given

\* C12: after add_store(name, config) on a file-backed context and the
\* construction of a new context from the same files, the raw config of the
\* store is the config passed to add_store and the registry has the store.
C12_AddStoreRoundTrip ==
    (file_backed /\ ctx_pc = "ready" /\ last.op = "init" /\ last.after_add_store # None) =>
        LET added == last.after_add_store[1]
        IN  /\ added.name \in DOMAIN project_config.stores
            /\ project_config.stores[added.name] = added.config
            /\ added.name \in DOMAIN stores

\* C13: after a successful add_datasource, add_store or
\* add_validation_operator on a file-backed context, great_expectations.yml
\* has the datasources, stores and validation_operators of the raw config.
C13_PersistedOnMutation ==
    (file_backed /\ last.op \in AddCalls /\ last.error = "none") =>
        SectionsOf(yml) = SectionsOf(project_config)

\* The instance get_datasource constructs of the datasource named name in the
\* context c: made from the substituted config entry with the name put in.
ConstructedFrom(c, name) ==
    Mapping(Put(get_config_with_variables_substituted(c).value.datasources[name].v,
                "name", Str(<<Char(name)>>)))

\* C14: get_datasource(name) returns the cached instance and constructs
\* nothing when there is one; otherwise, with name in the config, it
\* constructs exactly one instance from the substituted config entry, caches
\* and returns it, leaves the raw config as it was, and the next
\* get_datasource(name) returns the same instance; with name in neither it
\* fails with ValueError and changes neither the cache nor the config.
C14_GetDatasource ==
    last.op = "get_datasource" =>
        /\ project_config = Before.project_config
        /\ IF last.name \in DOMAIN Before.datasources
           THEN /\ last.error = "none"
                /\ last.value = Some(Before.datasources[last.name])
                /\ last.constructed = <<>>
                /\ datasources = Before.datasources
           ELSE IF last.name \in DOMAIN Before.project_config.datasources
           THEN IF last.error = "none"
                THEN /\ last.constructed = << <<"datasources", last.name>> >>
                     /\ last.value[1].config = ConstructedFrom(Before, last.name)
                     /\ last.value[1].id = Before.instances + 1
                     /\ datasources = Put(Before.datasources, last.name, last.value[1])
                     /\ get_datasource(Context, last.name).value = last.value
                     /\ get_datasource(Context, last.name).c.instances = instances
                ELSE /\ last.error \in {"ClassResolutionError", "ConstructionError"}
                     /\ datasources = Before.datasources
           ELSE /\ last.error = "ValueError"
                /\ last.constructed = <<>>
                /\ datasources = Before.datasources

\* get_datasource constructed a datasource from a config with a token that the
\* variables file resolves.
C14_Witness ==
    /\ last.op = "get_datasource"
    /\ last.error = "none"
    /\ last.constructed # <<>>
    /\ last.value[1].config # Mapping(Put(Before.project_config.datasources[last.name].v,
                                          "name", Str(<<Char(last.name)>>)))

\* C15: a successful add_* call for a name that exists overwrites the raw
\* config entry and the cached instance, so that the instance under the name
\* is a new one made from the new config; and no call on a context takes a
\* name out of a registry.
C15_ReAddOverwrites ==
    /\ (last.op \in AddCalls /\ last.error = "none"
           /\ last.name \in DOMAIN Before.project_config[SectionOf(last.op)]) =>
          LET section == SectionOf(last.op)
              substituted == get_config_with_variables_substituted(Context).value
          IN  /\ project_config[section][last.name] = last.config[1]
              /\ last.name \in DOMAIN RegistryOf(Context, section)
              /\ RegistryOf(Context, section)[last.name].config =
                     IF section = "datasources" THEN ConstructedFrom(Context, last.name)
                     ELSE substituted[section][last.name]
    /\ (last.op \notin {"none", "init"}) =>
          \A section \in Sections :
              DOMAIN RegistryOf(Before, section) \subseteq DOMAIN RegistryOf(Context, section)

\* What holds of re-adding: the raw config entry is overwritten by every
\* add_* call that gets to write it, and the cached instance by every
\* successful one but add_datasource(initialize=False), which leaves the
\* registry as it was; and no call takes a name out of a registry.
C15_ReAddInitialized ==
    /\ (last.op \in AddCalls /\ last.error = "none") =>
          LET section == SectionOf(last.op)
              substituted == get_config_with_variables_substituted(Context).value
          IN  /\ project_config[section][last.name] = last.config[1]
              /\ IF last.op = "add_datasource" /\ ~ last.initialize
                 THEN datasources = Before.datasources
                 ELSE /\ RegistryOf(Context, section)[last.name].id = Before.instances + 1
                      /\ RegistryOf(Context, section)[last.name].config =
                             IF section = "datasources"
                             THEN ConstructedFrom(Context, last.name)
                             ELSE substituted[section][last.name]
    /\ (last.op \notin {"none", "init"}) =>
          \A section \in Sections :
              DOMAIN RegistryOf(Before, section) \subseteq DOMAIN RegistryOf(Context, section)

\* What holds of persistence: after a successful add_datasource or add_store
\* on a file-backed context the file has the raw config, and no call on a
\* context that is not file-backed writes the file.
C13_PersistedOnAddStoreOrDatasource ==
    /\ (file_backed /\ last.op \in {"add_datasource", "add_store"} /\ last.error = "none") =>
          yml = project_config
    /\ (~ file_backed /\ last.op # "none") => yml = Before.yml

\* What holds of the raw config: an add_* call writes the config it is passed,
\* as passed, and leaves the other entries as they were.
C11_AddWritesRaw ==
    (last.op \in AddCalls /\ last.error = "none") =>
        project_config =
            [Before.project_config EXCEPT ![SectionOf(last.op)] =
                                              Put(@, last.name, last.config[1])]

\* The constructions of __init__ for a project config: the datasources, then
\* the stores, then the validation operators.
ConstructionsOf(config) ==
    LET of(section, names) ==
            SelectSeq([i \in 1..Len(names) |-> <<section, names[i]>>],
                      LAMBDA p : p[2] \in DOMAIN config[section])
    IN  of("datasources", DatasourceNames) \o of("stores", StoreNames)
            \o of("validation_operators", ValidationOperatorNames)

\* The class of every configured component exists.
AllClassesExist(config) ==
    \A section \in Sections : \A name \in DOMAIN config[section] :
        config[section][name].v["class_name"] = Str(<<Char("K")>>)

\* C16: the construction of a context constructs every configured datasource,
\* then every store, then every validation operator; it raises, and gives no
\* context, when one of the constructions fails; and when it returns, each
\* registry has an instance for exactly the names configured.
C16_EagerFailFast ==
    last.op = "init" =>
        /\ ctx_pc = (IF last.error = "none" THEN "ready" ELSE "failed")
        /\ ~ AllClassesExist(Before.yml) => last.error # "none"
        /\ last.error = "none" =>
              /\ last.constructed = ConstructionsOf(Before.yml)
              /\ \A section \in Sections :
                    /\ DOMAIN RegistryOf(Context, section) = DOMAIN Before.yml[section]
                    /\ DOMAIN RegistryOf(Context, section) = DOMAIN project_config[section]
        /\ last.error # "none" =>
              \E n \in 0..Len(ConstructionsOf(Before.yml)) :
                  last.constructed = SubSeq(ConstructionsOf(Before.yml), 1, n)

\* A context constructed with a datasource, a store and a validation operator.
C16_Witness ==
    /\ last.op = "init"
    /\ ctx_pc = "ready"
    /\ Len(last.constructed) = 3

\* A construction that failed at the store, after the datasource was made.
C16_WitnessFailed ==
    /\ last.op = "init"
    /\ ctx_pc = "failed"
    /\ last.error = "ClassResolutionError"
    /\ Len(last.constructed) = 1

\* C17: after save_config_variable(name, value) succeeded, the substituted
\* view read next has value for every ${name} token: the variables it is
\* substituted with are the ones loaded before the save with name set to
\* value, whatever config_variables_file_path is configured.
C17_SavedVariableRead ==
    (last.op = "save_config_variable" /\ last.error = "none") =>
        LET view == get_config_with_variables_substituted(Context)
            saved == Put(load_config_variables_file(Before).value, last.name, last.config[1])
        IN  /\ view.error = "none"
            /\ load_config_variables_file(Context).value = saved
            /\ \A section \in Sections :
                  /\ view.value[section] =
                         substitute_all_config_variables(Mapping(project_config[section]),
                                                         saved).v
                  /\ last.name \notin TokensOf(Mapping(view.value[section]))

\* A variable saved with a new value in a context whose config has its token,
\* under a config_variables_file_path that has a token itself.
C17_Witness ==
    /\ last.op = "save_config_variable"
    /\ last.error = "none"
    /\ last.name \in TokensOf(Mapping(project_config.datasources))
    /\ last.name \in TokensOf(Str(project_config.config_variables_file_path[1]))
    /\ load_config_variables_file(Before).value # load_config_variables_file(Context).value

\* The variables file the project config c.project_config names.
ConfiguredFile(c) == c.variables_file[c.project_config.config_variables_file_path[1]]

\* C18: loading the variables gives the empty mapping when no path is
\* configured and when the file does not exist, gives the file's content when
\* it exists, and raises the I/O error when the file cannot be opened for
\* another reason, also in the construction of a context, whose first step it
\* is; and no call that loads the variables creates the file: a file comes to
\* be by save_config_variable, at the configured path, or by create(), which
\* writes the template of a new project where there is no file.
C18_LoadVariablesFile ==
    /\ last.op = "load_config_variables_file" =>
          IF Before.project_config.config_variables_file_path = None
          THEN last.error = "none" /\ last.value = NoVariables
          ELSE IF ConfiguredFile(Before).state = "absent"
          THEN last.error = "none" /\ last.value = NoVariables
          ELSE IF ConfiguredFile(Before).state = "present"
          THEN last.error = "none" /\ last.value = ConfiguredFile(Before).vars
          ELSE last.error = "IOError"
    /\ (last.op = "init" /\ Before.yml.config_variables_file_path # None) =>
          LET file == Before.variables_file[Before.yml.config_variables_file_path[1]]
          IN  /\ file.state = "unreadable" => last.error = "IOError"
              /\ file.state # "unreadable" => last.error # "IOError"
    /\ last.op \notin {"none", "save_config_variable", "create"} =>
          variables_file = Before.variables_file
    /\ last.op = "create" =>
          \A path \in VariablesPaths :
              variables_file[path] # Before.variables_file[path] =>
                  /\ path = ConfigVariablesYml
                  /\ Before.variables_file[path].state = "absent"
                  /\ variables_file[path] = FilePresent(CONFIG_VARIABLES_TEMPLATE)
    /\ last.op = "save_config_variable" =>
          \A path \in VariablesPaths :
              variables_file[path] # Before.variables_file[path] =>
                  /\ last.error = "none"
                  /\ Some(path) = project_config.config_variables_file_path

\* The variables loaded in a context whose variables file does not exist.
C18_Witness ==
    /\ last.op = "load_config_variables_file"
    /\ Before.project_config.config_variables_file_path # None
    /\ ConfiguredFile(Before).state = "absent"
    /\ last.value = NoVariables

\* The file that did not exist, created by save_config_variable.
C18_WitnessCreated ==
    /\ last.op = "save_config_variable"
    /\ ConfiguredFile(Before).state = "absent"
    /\ ConfiguredFile(Context).state = "present"

-----------------------------------------------------------------------------
\* Failed add_* calls.

\* The context and its files after the last call are those before it but for
\* the log of constructions.
ContextUnchanged == [Context EXCEPT !.constructed = Before.constructed] = Before

\* C30: add_datasource with a class that cannot be resolved fails, and leaves
\* the raw config, the registries and great_expectations.yml as they were.
C30_UnresolvedClassNoChange ==
    (last.op = "add_datasource" /\ ~ load_class(Get(last.config[1].v, "class_name"))) =>
        /\ last.error = "ClassResolutionError"
        /\ last.constructed = <<>>
        /\ ContextUnchanged

\* add_datasource of a class that cannot be resolved, on a file-backed context
\* and under a name that has a datasource of another config.
C30_Witness ==
    /\ last.op = "add_datasource"
    /\ file_backed
    /\ last.error = "ClassResolutionError"
    /\ last.name \in DOMAIN Before.project_config.datasources
    /\ Before.project_config.datasources[last.name] # last.config[1]

\* The last call is an add_* call in which the construction of the component
\* failed: add_store, add_validation_operator, or add_datasource(initialize=True)
\* of a class that was resolved.
InstantiationFailed ==
    /\ last.op \in AddCalls
    /\ last.error \in {"ClassResolutionError", "ConstructionError"}
    /\ last.op = "add_datasource" =>
          /\ last.initialize
          /\ load_class(Get(last.config[1].v, "class_name"))

\* C29: after an add_* call whose instantiation failed the registry is as it
\* was, the raw config has the new entry and great_expectations.yml was not
\* written; so the raw config has a name with no cached instance and differs
\* from great_expectations.yml.
C29_FailedAddLeavesOrphan ==
    InstantiationFailed =>
        LET section == SectionOf(last.op)
        IN  /\ RegistryOf(Context, section) = RegistryOf(Before, section)
            /\ project_config[section][last.name] = last.config[1]
            /\ yml = Before.yml
            /\ last.name \notin DOMAIN RegistryOf(Context, section)
            /\ file_backed => SectionsOf(project_config) # SectionsOf(yml)

\* C29, as it holds: after an add_* call whose instantiation failed every
\* registry is as it was, the raw config is the one before with the new entry
\* written, and great_expectations.yml was not written; the name has no cached
\* instance when it had none before the call, and otherwise still has the
\* instance that was cached before; the raw config differs from
\* great_expectations.yml in that entry unless the file had the entry already.
C29_FailedAddKeepsRegistry ==
    InstantiationFailed =>
        LET section == SectionOf(last.op)
        IN  /\ datasources = Before.datasources
            /\ stores = Before.stores
            /\ validation_operators = Before.validation_operators
            /\ project_config = [Before.project_config EXCEPT
                                     ![section] = Put(@, last.name, last.config[1])]
            /\ yml = Before.yml
            /\ variables_file = Before.variables_file
            /\ (last.name \in DOMAIN RegistryOf(Context, section))
                   <=> (last.name \in DOMAIN RegistryOf(Before, section))
            /\ (file_backed /\ (last.name \notin DOMAIN Before.yml[section]
                                   \/ Before.yml[section][last.name] # last.config[1])) =>
                   SectionsOf(project_config) # SectionsOf(yml)

\* add_datasource(initialize=True) of a class whose constructor raises, on a
\* file-backed context, under a name that has no datasource.
C29_Witness ==
    /\ InstantiationFailed
    /\ file_backed
    /\ last.op = "add_datasource"
    /\ last.error = "ConstructionError"
    /\ last.name \notin DOMAIN Before.datasources

\* A failed add_store under a name that has a cached store.
C29_WitnessReAdd ==
    /\ InstantiationFailed
    /\ last.op = "add_store"
    /\ last.name \in DOMAIN Before.stores

-----------------------------------------------------------------------------
\* The files of the project in the construction of a context.

\* C28: the construction of a file-backed DataContext leaves
\* great_expectations.yml as it was, with every token it had.
C28_LoadingIsReadOnly ==
    (file_backed /\ last.op = "init") => yml = Before.yml

-----------------------------------------------------------------------------
\* The errors of the construction of a context.

\* The exceptions of the InvalidConfig kind.
InvalidConfigKind == {"InvalidConfigError", "InvalidDataContextConfigError"}

\* C21: the construction of a context with a project config that does not
\* have the schema, or with a data_asset_name_delimiter that is not '.' or
\* '/', fails with an error of the InvalidConfig kind.
C21_InvalidSettingsError ==
    (last.op = "init"
        /\ (~ Before.yml.schema_valid \/ last.config[1] \notin ALLOWED_DELIMITERS)) =>
        last.error \in InvalidConfigKind

\* What holds of invalid settings: the construction fails; for a config
\* without the schema before anything else is done, with ValidationError
\* for a config given as a dict and InvalidDataContextConfigError for a file;
\* for a delimiter that is not allowed, with DataContextError after every
\* component was constructed, unless another error came first.
C21_InvalidSettingsRaise ==
    last.op = "init" =>
        /\ ~ Before.yml.schema_valid =>
              /\ last.error = (IF file_backed THEN "InvalidDataContextConfigError"
                               ELSE "ValidationError")
              /\ ContextUnchanged
        /\ (Before.yml.schema_valid /\ last.config[1] \notin ALLOWED_DELIMITERS) =>
              /\ last.error # "none"
              /\ last.error = "DataContextError" =>
                    last.constructed = ConstructionsOf(Before.yml)
              /\ (AllClassesExist(Before.yml) /\ last.error # "IOError") =>
                    last.error = "DataContextError"
        /\ last.error \in {"DataContextError", "ValidationError",
                           "InvalidDataContextConfigError"} =>
              (~ Before.yml.schema_valid \/ last.config[1] \notin ALLOWED_DELIMITERS)

-----------------------------------------------------------------------------
\* The files of the project in create.

\* C27: create on a directory that has great_expectations.yml leaves that
\* file as it was, and on a directory that has config_variables.yml leaves
\* that file as it was.
C27_CreateKeepsExistingFiles ==
    last.op = "create" =>
        /\ Before.yml # None => yml = Before.yml
        /\ Before.variables_file[ConfigVariablesYml].state # "absent" =>
              variables_file[ConfigVariablesYml] = Before.variables_file[ConfigVariablesYml]

\* What holds of create: the templates are written only for the files that do
\* not exist; config_variables.yml, when it exists, is left as it was, and so
\* is great_expectations.yml when create fails because project_root_dir is not
\* a directory or when the file has no store.
C27_CreateKeepsVariablesFile ==
    last.op = "create" =>
        /\ Before.variables_file[ConfigVariablesYml].state # "absent" =>
              variables_file = Before.variables_file
        /\ Before.variables_file[ConfigVariablesYml].state = "absent" =>
              (IF last.error = "DataContextError" THEN variables_file = Before.variables_file
               ELSE variables_file[ConfigVariablesYml]
                        = FilePresent(CONFIG_VARIABLES_TEMPLATE))
        /\ (Before.yml # None /\ (~ last.initialize \/ Before.yml.stores = EmptySection)) =>
              yml = Before.yml
        /\ (Before.yml = None /\ last.initialize) =>
              SectionsOf(yml) = SectionsOf(PROJECT_TEMPLATE)

-----------------------------------------------------------------------------
\* The stored records over the calls of the store.

\* The table `table` is the table `before` with rows appended.
Extends(table, before) ==
    /\ Len(before) <= Len(table)
    /\ SubSeq(table, 1, Len(before)) = before

\* The commit of the ended operation of t returned.
Committed(t) == Call("commit", FALSE) \in Range(calls[t])

\* C25: over create, get and list calls no stored record is modified or
\* removed; get and list leave the stored records as they are, a create that
\* returned has added exactly one record, and a create that raised has added
\* none.
C25_AppendOnly ==
    \A t \in AllThreads :
        Ended(t) =>
            /\ Extends(db, db0[t])
            /\ op[t].kind \in {"get", "list"} => db = db0[t]
            /\ (op[t].kind = "create" /\ outcome[t].kind = "returned") =>
                  db = db0[t] \o flush(<<op[t].row>>, db0[t])
            /\ (op[t].kind = "create" /\ outcome[t].kind = "raised") => db = db0[t]

\* C25, as it holds: no stored record is modified or removed; get and list
\* leave the stored records as they are; a create whose commit returned has
\* added exactly one record, its own, after the records that were stored, also
\* when one of them has the same key, and also when close then raised and with
\* it the create; a create that raised in add or in commit has added none.
C25_AppendOnlyUntilCommit ==
    \A t \in AllThreads :
        Ended(t) =>
            /\ Extends(db, db0[t])
            /\ op[t].kind \in {"get", "list"} => db = db0[t]
            /\ (op[t].kind = "create" /\ Committed(t)) =>
                  db = db0[t] \o flush(<<op[t].row>>, db0[t])
            /\ (op[t].kind = "create" /\ ~ Committed(t)) =>
                  /\ outcome[t].kind = "raised"
                  /\ db = db0[t]
            /\ outcome[t].kind = "returned" => Committed(t)

\* A create that returned, of a record with the key of a stored record.
C25_Witness ==
    \E t \in AllThreads :
        /\ Done(t, "create")
        /\ outcome[t].kind = "returned"
        /\ \E i \in 1..Len(db0[t]) : \A f \in KeyFields : db0[t][i][f] = op[t].row[f]

-----------------------------------------------------------------------------
\* The timestamps of create().

\* The arguments of create() that it passes on as they are.
PassedOn ==
    KeyFields \cup {"datasource_name", "data_asset_name", "batch_name", "deleted_at",
                    "deleted", "archived_at", "archived", "data_context_uuid", "value",
                    "details"}

\* C26: create() with created_at and updated_at omitted stores a record with
\* both set to one timestamp; a timestamp that is given is stored as given;
\* deleted_at and archived_at, like every other argument, are stored as given,
\* None included; and create() raises nothing of its own, whatever the flags
\* and timestamps are: a create whose session calls all returned has returned
\* and stored the record.
C26_TimestampDefaulting ==
    \A t \in AllThreads :
        op[t].kind = "create" =>
            LET a == op[t].args
                row == op[t].row
            IN  /\ (a.created_at = None /\ a.updated_at = None) =>
                      /\ row.created_at = row.updated_at
                      /\ row.created_at # None
                /\ a.created_at # None => row.created_at = a.created_at
                /\ a.updated_at # None => row.updated_at = a.updated_at
                /\ row.created_at # None /\ row.updated_at # None
                /\ row.created_at[1] \in Times /\ row.updated_at[1] \in Times
                /\ \A f \in PassedOn : row[f] = a[f]
                /\ (Ended(t) /\ Raised(t) = <<>>) =>
                      /\ outcome[t].kind = "returned"
                      /\ db = db0[t] \o flush(<<row>>, db0[t])

\* A create that returned, with the timestamps omitted.
C26_Witness ==
    \E t \in AllThreads :
        /\ Returned(t, "create")
        /\ op[t].args.created_at = None
        /\ op[t].args.updated_at = None
        /\ db[Len(db)].created_at = db[Len(db)].updated_at

\* A create that returned, of a record that is deleted with no deleted_at and
\* that was created after it was updated.
C26_WitnessAccepted ==
    \E t \in AllThreads :
        /\ Returned(t, "create")
        /\ db[Len(db)].deleted
        /\ db[Len(db)].deleted_at = None
        /\ db[Len(db)].created_at[1] > db[Len(db)].updated_at[1]

-----------------------------------------------------------------------------
(* Two callers of one store, on two threads *)

\* The record each caller creates: the callers' records differ in batch_id,
\* and both are given their timestamps.
ArgsOf(t) ==
    CHOOSE a \in CreateArgs :
        /\ a.batch_id = (IF t = "t1" THEN Some("b1") ELSE Some("b2"))
        /\ a.created_at = Some(2)
        /\ a.updated_at = Some(1)

\* The store operations the callers start: create() of the caller's record
\* and list() with no time filter.
start(t) ==
    \/ create(t) /\ op'[t].args = ArgsOf(t)
    \/ list(t) /\ op'[t].datetime_begin = None /\ op'[t].datetime_end = None

\* scoped_session keeps one session per thread (lines 370-372): each caller
\* runs on its own thread, and makes one call on the store.
ThreadsInit ==
    /\ StoreInit
    /\ threads = [t \in AllThreads |-> t]
    /\ NoTranslation
    /\ NoSubstitution
    /\ NoContext
    /\ StoreConstructed

ThreadsNext ==
    \E t \in AllThreads :
        \/ start(t)
        \/ session_add(t)
        \/ session_query(t)
        \/ managed_commit(t)
        \/ managed_except(t)
        \/ managed_close(t)
        \/ managed_remove(t)

ThreadsSpec == ThreadsInit /\ [][ThreadsNext]_vars

\* The caller whose operation takes the step.
Acts(t) == pc'[t] # pc[t]

\* C22: callers on two threads use independent sessions: a step of one
\* caller's operation (its commit, rollback, close or release included) leaves
\* the rows the other thread's session has added and not committed, and that
\* session's place in the registry, as they are, and writes to the table none
\* but the rows of its own session.
C22_ThreadIsolation ==
    [][\A t \in DOMAIN threads, u \in DOMAIN threads :
          (Acts(t) /\ threads[u] # threads[t]) =>
              /\ pending'[threads[u]] = pending[threads[u]]
              /\ registry'[threads[u]] = registry[threads[u]]
              /\ db' \in {db, db \o flush(pending[threads[t]], db)}]_vars

\* One caller's create has committed, closed and released its session and
\* returned while the other caller's create, started before that commit, has
\* its record added and not committed.
C22_Witness ==
    /\ threads["t1"] # threads["t2"]
    /\ Returned("t1", "create")
    /\ pc["t2"] = "commit"
    /\ op["t2"].kind = "create"
    /\ db0["t2"] = <<>>
    /\ pending[threads["t2"]] = <<op["t2"].row>>
    /\ registry[threads["t2"]]
    /\ ~registry[threads["t1"]]
    /\ Len(db) = 1
    /\ db[1].batch_id = Some("b1")

\* One caller's create has failed and rolled back while the other caller's
\* record is added and not committed.
C22_WitnessRollback ==
    /\ threads["t1"] # threads["t2"]
    /\ Done("t1", "create")
    /\ Call("rollback", FALSE) \in Range(calls["t1"])
    /\ pc["t2"] = "commit"
    /\ pending[threads["t2"]] = <<op["t2"].row>>
    /\ db = <<>>

-----------------------------------------------------------------------------
(* Two operations of one store on one thread, one started inside the other *)

\* The operation has entered its managed session block and not left it.
Open(t) == pc[t] \in {"add", "query", "commit", "except", "close", "remove"}

\* Both operations run on thread t1: "t1" is the operation started first and
\* "t2" the one started while it is open.
NestedInit ==
    /\ StoreInit
    /\ threads = [t \in AllThreads |-> "t1"]
    /\ NoTranslation
    /\ NoSubstitution
    /\ NoContext
    /\ StoreConstructed

\* A step of the outer operation: a thread runs one frame at a time, so the
\* outer operation steps only while no inner one is on the stack.
outer_step ==
    /\ Idle("t2")
    /\ \/ start("t1")
       \/ session_add("t1")
       \/ session_query("t1")
       \/ managed_commit("t1")
       \/ managed_except("t1")
       \/ managed_close("t1")
       \/ managed_remove("t1")
       \/ return_to_caller("t1")

\* A step of the inner operation, which starts while the outer one is open.
inner_step ==
    \/ Open("t1") /\ start("t2")
    \/ session_add("t2")
    \/ session_query("t2")
    \/ managed_commit("t2")
    \/ managed_except("t2")
    \/ managed_close("t2")
    \/ managed_remove("t2")
    \/ return_to_caller("t2")

NestedNext == outer_step \/ inner_step

NestedSpec == NestedInit /\ [][NestedNext]_vars

\* C23: an operation started on a thread while another one is open on it
\* uses the same session: its commit writes to the table every row the
\* session holds, the open operation's uncommitted record included, and no
\* later step (the open operation's failure and rollback included) takes a
\* row from the table; its close empties the session and its release takes
\* the session from the registry while the other operation is still open.
C23_SameThreadShared ==
    [][/\ Extends(db', db)
       /\ \A t \in DOMAIN threads, u \in DOMAIN threads :
             (Acts(u) /\ t # u /\ threads[t] = threads[u] /\ Open(t)) =>
                 /\ (pc[u] = "commit" /\ pc'[u] = "close") =>
                       /\ db' = db \o flush(pending[threads[t]], db)
                       /\ pending'[threads[t]] = <<>>
                 /\ pc[u] = "close" => pending'[threads[t]] = <<>>
                 /\ pc[u] = "remove" => ~registry'[threads[t]]]_vars

\* The outer create failed at its commit and rolled back, and its record is
\* in the table: committed by the inner operation.
C23_Witness ==
    /\ threads["t1"] = threads["t2"]
    /\ Done("t1", "create")
    /\ outcome["t1"].kind = "raised"
    /\ Raised("t1") = <<Call("commit", TRUE)>>
    /\ Call("rollback", FALSE) \in Range(calls["t1"])
    /\ db0["t1"] = <<>>
    /\ Len(db) = 1
    /\ db[1].batch_id = op["t1"].row.batch_id

\* The outer operation is open and the inner one has released the session.
C23_WitnessReleased ==
    /\ threads["t1"] = threads["t2"]
    /\ pc["t1"] = "commit"
    /\ Returned("t2", "list")
    /\ ~registry[threads["t1"]]

-----------------------------------------------------------------------------
(* Calls of get_datasource and add_datasource by two threads on one context,
   one statement at a time *)

NoFrame ==
    [pc |-> "idle", call |-> "none", name |-> "", initialize |-> FALSE, kwargs |-> None,
     config |-> None, datasource |-> None, error |-> "none", value |-> None]

\* The thread is inside a call on the context.
InCall(t) == frames[t].pc \notin {"idle", "done"}

\* A context constructed from a project config with no components: nothing
\* is configured and nothing is cached.
RaceInit ==
    /\ StoreInit
    /\ StoreConstructed
    /\ threads = <<>>
    /\ NoTranslation
    /\ NoSubstitution
    /\ ctx_pc = "ready"
    /\ file_backed = FALSE
    /\ yml = ProjectConfig(None, None, None, None)
    /\ variables_file = [path \in VariablesPaths |-> FileAbsent]
    /\ project_config = yml
    /\ datasources = EmptySection
    /\ stores = EmptySection
    /\ validation_operators = EmptySection
    /\ instances = 0
    /\ as_given = <<>>
    /\ last = NoCall
    /\ key_order = <<>>
    /\ self_data_asset_name_delimiter = Some("/")
    /\ active_environment_name = None
    /\ NoSuites
    /\ self_context_root_directory = Some("root")
    /\ frames = [t \in AllThreads |-> NoFrame]
    /\ history = [calls |-> 0, overlapped |-> FALSE,
                  built |-> [name \in Range(DatasourceNames) |-> 0]]

raceUnchanged ==
    UNCHANGED <<storeVars, translateVars, ctorVars, substVars, ctx_pc, file_backed, yml,
                variables_file, stores, validation_operators, as_given, last, key_order,
                self_data_asset_name_delimiter, active_environment_name,
                self_context_root_directory, expectations_store, suite_call>>

\* A thread calls a method of the context; the call overlaps another when
\* the other thread is inside one.
thread_calls(t, frame) ==
    /\ history.calls < MaxCalls
    /\ frames' = [frames EXCEPT ![t] = frame]
    /\ history' = [history EXCEPT !.calls = @ + 1,
                                  !.overlapped = @ \/ \E u \in AllThreads \ {t} : InCall(u)]
    /\ UNCHANGED <<project_config, datasources, instances>>
    /\ raceUnchanged

thread_calls_get_datasource(t) ==
    /\ ~InCall(t)
    /\ \E datasource_name \in Range(DatasourceNames) :
          thread_calls(t, [NoFrame EXCEPT !.pc = "lookup", !.call = "get_datasource",
                                          !.name = datasource_name])

thread_calls_add_datasource(t) ==
    /\ ~InCall(t)
    /\ \E name \in Range(DatasourceNames), initialize \in BOOLEAN,
          kwargs \in DatasourceConfigs :
          thread_calls(t, [NoFrame EXCEPT !.pc = "write", !.call = "add_datasource",
                                          !.name = name, !.initialize = initialize,
                                          !.kwargs = Some(kwargs)])

\* The call ends: it raises error or returns value.
ended(frame, error, value) == [frame EXCEPT !.pc = "done", !.error = error, !.value = value]

\* add_datasource, lines 736-751: the class is loaded and the config written
\* to the raw config; the instances built for the name are counted from here.
thread_write(t) ==
    /\ frames[t].pc = "write"
    /\ LET f == frames[t]
           kwargs == f.kwargs[1]
       IN  IF ~ load_class(Get(kwargs.v, "class_name"))
           THEN /\ frames' = [frames EXCEPT ![t] = ended(f, "ClassResolutionError", None)]
                /\ UNCHANGED <<project_config, history>>
           ELSE /\ project_config' = [project_config EXCEPT !.datasources = Put(@, f.name, kwargs)]
                /\ history' = [history EXCEPT !.built[f.name] = 0]
                /\ frames' = [frames EXCEPT ![t] =
                                 IF f.initialize THEN [f EXCEPT !.pc = "view"]
                                 ELSE ended(f, "none", None)]
    /\ UNCHANGED <<datasources, instances>>
    /\ raceUnchanged

\* get_datasource, line 832, that takes no datasource from the cache.
thread_lookup_uncached(t) ==
    /\ frames[t].pc = "lookup"
    /\ frames' = [frames EXCEPT ![t].pc = "view"]
    /\ UNCHANGED <<project_config, datasources, instances, history>>
    /\ raceUnchanged

\* get_datasource, line 832: if datasource_name in self._datasources
thread_lookup(t) ==
    /\ frames[t].pc = "lookup"
    /\ frames' = [frames EXCEPT ![t].pc =
                     IF frames[t].name \in DOMAIN datasources THEN "read" ELSE "view"]
    /\ UNCHANGED <<project_config, datasources, instances, history>>
    /\ raceUnchanged

\* get_datasource, line 833: return self._datasources[datasource_name]; no
\* entry is ever taken from the registry.
thread_read(t) ==
    /\ frames[t].pc = "read"
    /\ frames' = [frames EXCEPT ![t] =
                     ended(frames[t], "none", Some(datasources[frames[t].name]))]
    /\ UNCHANGED <<project_config, datasources, instances, history>>
    /\ raceUnchanged

\* The thread's frame after it read the substituted config of its datasource.
viewed(frame, view) ==
    IF view.error # "none" THEN ended(frame, view.error, None)
    ELSE IF frame.name \notin DOMAIN view.value.datasources
    THEN ended(frame, "ValueError", None)
    ELSE [frame EXCEPT !.pc = "build", !.config = Some(view.value.datasources[frame.name])]

\* get_datasource, lines 834-840, and add_datasource, line 755: the config
\* of the datasource, read from the substituted view of the raw config.
thread_view(t) ==
    /\ frames[t].pc = "view"
    /\ frames' = [frames EXCEPT ![t] =
                     viewed(frames[t], get_config_with_variables_substituted(Context))]
    /\ UNCHANGED <<project_config, datasources, instances, history>>
    /\ raceUnchanged

\* The thread's frame after _build_datasource_from_config ended as r.
built(frame, r) ==
    IF r.error # "none" THEN ended(frame, r.error, None)
    ELSE [frame EXCEPT !.pc = "store", !.datasource = Some(r.value)]

\* get_datasource, line 841, and add_datasource, lines 754-755: the
\* datasource is constructed and held in a local variable.
thread_build(t) ==
    /\ frames[t].pc = "build"
    /\ frames' = [frames EXCEPT ![t] =
                     built(frames[t],
                           build_datasource_from_config(Context, frames[t].name,
                                                        frames[t].config[1]))]
    /\ instances' = IF frames'[t].pc = "store" THEN instances + 1 ELSE instances
    /\ history' = IF frames'[t].pc = "store"
                  THEN [history EXCEPT !.built[frames[t].name] = @ + 1]
                  ELSE history
    /\ UNCHANGED <<project_config, datasources>>
    /\ raceUnchanged

\* get_datasource, lines 842-843, and add_datasource, lines 756-760:
\* self._datasources[name] = datasource; return datasource
thread_store(t) ==
    /\ frames[t].pc = "store"
    /\ datasources' = Put(datasources, frames[t].name, frames[t].datasource[1])
    /\ frames' = [frames EXCEPT ![t] = ended(frames[t], "none", frames[t].datasource)]
    /\ UNCHANGED <<project_config, instances, history>>
    /\ raceUnchanged

RaceNext ==
    \E t \in AllThreads :
        \/ thread_calls_get_datasource(t)
        \/ thread_calls_add_datasource(t)
        \/ thread_write(t)
        \/ thread_lookup(t)
        \/ thread_read(t)
        \/ thread_view(t)
        \/ thread_build(t)
        \/ thread_store(t)

RaceSpec == RaceInit /\ [][RaceNext]_vars

\* C24: the registry is written with no lock held, and the instance a call
\* returns is the one it read from the registry or the one it built and
\* wrote to it; when no two calls overlapped, at most one instance has been
\* built for a name since the last add_datasource wrote its config.
C24_SerializedBuildsOnce ==
    /\ ~history.overlapped =>
          \A name \in Range(DatasourceNames) : history.built[name] <= 1
    /\ \A t \in AllThreads :
          (frames[t].pc = "done" /\ frames[t].value # None) =>
              /\ frames[t].value[1].id \in 1..instances
              /\ frames[t].name \in DOMAIN datasources

\* Two overlapping get_datasource calls for one name have returned two
\* instances, both built since the last add_datasource, and the registry
\* holds one of them.
C24_Witness ==
    /\ \A t \in AllThreads :
          /\ frames[t].pc = "done"
          /\ frames[t].call = "get_datasource"
          /\ frames[t].name = "d1"
          /\ frames[t].value # None
    /\ frames["t1"].value # frames["t2"].value
    /\ history.built["d1"] = 2
    /\ "d1" \in DOMAIN datasources
    /\ Some(datasources["d1"]) \in {frames["t1"].value, frames["t2"].value}

\* An add_datasource and a get_datasource for one name overlapped and
\* returned two instances built from the one config.
C24_WitnessAdd ==
    /\ frames["t1"].pc = "done" /\ frames["t1"].call = "add_datasource"
    /\ frames["t2"].pc = "done" /\ frames["t2"].call = "get_datasource"
    /\ frames["t1"].value # None /\ frames["t2"].value # None
    /\ frames["t1"].value # frames["t2"].value
    /\ history.built["d1"] = 2
    /\ "d1" \in DOMAIN datasources
    /\ datasources["d1"] = frames["t1"].value[1]

\* Calls that did not overlap: an add_datasource that built nothing, then
\* two get_datasource calls that returned the one instance.
C24_WitnessSerialized ==
    /\ ~history.overlapped
    /\ history.calls >= 3
    /\ history.built["d1"] = 1
    /\ "d1" \in DOMAIN datasources
    /\ \A t \in AllThreads :
          /\ frames[t].pc = "done"
          /\ frames[t].call = "get_datasource"
          /\ frames[t].value = Some(datasources["d1"])

-----------------------------------------------------------------------------
\* Deferred initialization of a datasource.

\* The names that are configured and have no instance: their construction
\* is deferred.
Deferred == (DOMAIN project_config.datasources) \ (DOMAIN datasources)

\* C31: add_datasource(name, initialize=False, ...) for a name that is in
\* neither the config nor the registry writes the config entry, constructs
\* nothing, returns None and leaves the registry without the name (or fails
\* on a class that does not resolve and changes nothing); and wherever a
\* configured name has no instance, a get_datasource(name) that returns has
\* constructed one instance from the substituted config entry as it is then,
\* cached it and returned it.
C31_DeferredInitialization ==
    /\ (/\ last.op = "add_datasource"
        /\ ~last.initialize
        /\ last.name \notin DOMAIN Before.project_config.datasources
        /\ last.name \notin DOMAIN Before.datasources) =>
           IF last.error = "none"
           THEN /\ project_config.datasources =
                      Put(Before.project_config.datasources, last.name, last.config[1])
                /\ last.constructed = <<>>
                /\ instances = Before.instances
                /\ last.value = None
                /\ datasources = Before.datasources
                /\ last.name \in Deferred
           ELSE /\ last.error = "ClassResolutionError"
                /\ ContextUnchanged
    /\ ctx_pc = "ready" =>
          \A name \in Deferred :
              LET r == get_datasource(Context, name)
              IN  IF r.error = "none"
                  THEN /\ r.value[1].config = ConstructedFrom(Context, name)
                       /\ r.value[1].id = instances + 1
                       /\ r.c.instances = instances + 1
                       /\ r.c.datasources = Put(datasources, name, r.value[1])
                       /\ r.c.project_config = project_config
                  ELSE r.c.datasources = datasources

\* add_datasource with initialize=False has added a name that was not known,
\* with a token in its config, and a get_datasource of it would construct it.
C31_Witness ==
    /\ last.op = "add_datasource"
    /\ ~last.initialize
    /\ last.error = "none"
    /\ last.name \notin DOMAIN Before.project_config.datasources
    /\ last.name \in Deferred
    /\ last.config = Some(WithToken)
    /\ get_datasource(Context, last.name).error = "none"

\* The get_datasource that constructed the deferred datasource.
C31_WitnessGet ==
    /\ last.op = "get_datasource"
    /\ last.error = "none"
    /\ last.name \notin DOMAIN Before.datasources
    /\ last.name \in DOMAIN Before.project_config.datasources
    /\ last.constructed = << <<"datasources", last.name>> >>
    /\ datasources[last.name] = last.value[1]

-----------------------------------------------------------------------------
\* The registries and the raw config.

\* C32: in every state of a context, every name with an instance in the
\* datasource, store or validation-operator registry has an entry in the same
\* section of the raw config; and no call on a context takes an entry out of
\* the raw config.
C32_RegistryConfigConsistent ==
    /\ project_config # <<>> =>
          \A section \in Sections :
              DOMAIN RegistryOf(Context, section) \subseteq DOMAIN project_config[section]
    /\ (last.op \notin {"none", "init", "create"}) =>
          \A section \in Sections :
              DOMAIN Before.project_config[section] \subseteq DOMAIN project_config[section]

\* add_store has cached a store under a name that the config did not have.
C32_Witness ==
    /\ last.op = "add_store"
    /\ last.error = "none"
    /\ last.name \notin DOMAIN Before.project_config.stores
    /\ last.name \in DOMAIN stores
    /\ last.name \in DOMAIN project_config.stores

-----------------------------------------------------------------------------
(* list_datasources, on a context with several datasources *)

ListedNames == {"d1", "d2"}

\* The kwargs of add_datasource: of a class that exists and of one that does
\* not.
ListedConfigs == {Plain, NoSuchClass}

\* dict.__setitem__ that puts the key it sets last.
dict_setitem_moves(keys, key) ==
    SelectSeq(keys, LAMBDA k : k # key) \o <<key>>

\* The keys of a dict after d[key] = value: a key the dict has keeps its
\* place, a new key comes last.
dict_setitem(keys, key) ==
    IF key \in Range(keys) THEN keys ELSE Append(keys, key)

\* list_datasources: one entry per key of the datasources section of the
\* substituted config, in the order of the section's keys, which is the
\* order of the raw config's; no config of the model has the 'type' key.
list_datasources(c, keys) ==
    LET view == get_config_with_variables_substituted(c)
    IN  IF view.error # "none" THEN Raise(c, view.error)
        ELSE Ok(c, Some([i \in 1..Len(keys) |->
                            [name |-> keys[i],
                             class_name |-> view.value.datasources[keys[i]].v["class_name"]]]))

\* A context constructed from a project config with no components.
ListInit ==
    /\ StoreInit
    /\ StoreConstructed
    /\ threads = <<>>
    /\ NoTranslation
    /\ NoSubstitution
    /\ ctx_pc = "ready"
    /\ file_backed = FALSE
    /\ yml = ProjectConfig(None, None, None, None)
    /\ variables_file = [path \in VariablesPaths |-> FileAbsent]
    /\ project_config = yml
    /\ datasources = EmptySection
    /\ stores = EmptySection
    /\ validation_operators = EmptySection
    /\ instances = 0
    /\ as_given = <<>>
    /\ last = NoCall
    /\ frames = <<>>
    /\ history = <<>>
    /\ key_order = <<>>
    /\ self_data_asset_name_delimiter = Some("/")
    /\ active_environment_name = None
    /\ NoSuites
    /\ self_context_root_directory = Some("root")

\* add_datasource: line 751 sets the key of the raw config when the class
\* was loaded.
listed_add_datasource ==
    /\ \E name \in ListedNames, initialize \in BOOLEAN, kwargs \in ListedConfigs :
         /\ CallEndedAs(ConfigOnlyDataContext_add_datasource(Context, name, initialize, kwargs),
                        "add_datasource", name, Some(kwargs), initialize)
         /\ key_order' = IF load_class(Get(kwargs.v, "class_name"))
                         THEN dict_setitem(key_order, name)
                         ELSE key_order
    /\ UNCHANGED <<ctx_pc, file_backed, as_given, self_data_asset_name_delimiter,
                   active_environment_name>>

listed_get_datasource ==
    /\ \E datasource_name \in ListedNames :
         CallEnded(get_datasource(Context, datasource_name), "get_datasource",
                   datasource_name, None, FALSE)
    /\ UNCHANGED <<ctx_pc, file_backed, as_given>>

listed_list_datasources ==
    /\ CallEnded(list_datasources(Context, key_order), "list_datasources", "", None, FALSE)
    /\ UNCHANGED <<ctx_pc, file_backed, as_given>>

ListNext ==
    \/ listed_add_datasource
    \/ listed_get_datasource
    \/ listed_list_datasources

ListSpec == ListInit /\ [][ListNext]_vars

\* The names of the entries of a listing, in its order.
NamesOf(listing) == [i \in 1..Len(listing) |-> listing[i].name]

\* The add_datasource call that ended has written its config entry.
Added == last'.op = "add_datasource" /\ last'.error # "ClassResolutionError"

\* C33: list_datasources returns one entry per name of the raw config's
\* datasources, with or without an instance, in the order kept of the names:
\* an add_datasource that writes a name not in the config puts it last, one
\* that writes a name in the config leaves the order as it is, and
\* get_datasource and list_datasources do not change it.
C33_ListDatasources ==
    [][/\ IF Added /\ last'.name \notin DOMAIN project_config.datasources
          THEN key_order' = Append(key_order, last'.name)
          ELSE key_order' = key_order
       /\ Len(key_order') = Cardinality(DOMAIN project_config'.datasources)
       /\ Range(key_order') = DOMAIN project_config'.datasources
       /\ last'.op = "list_datasources" =>
             /\ last'.error = "none"
             /\ NamesOf(last'.value[1]) = key_order
             /\ \A i \in 1..Len(key_order) :
                   Str(last'.value[1][i].class_name.v) =
                       project_config.datasources[key_order[i]].v["class_name"]
             /\ datasources' = datasources
             /\ project_config' = project_config]_vars

\* d1 was added and initialized, then d2 without an instance: the listing
\* has d1 before d2.
C33_Witness ==
    /\ last.op = "list_datasources"
    /\ last.count = 3
    /\ NamesOf(last.value[1]) = <<"d1", "d2">>
    /\ DOMAIN datasources = {"d1"}

\* d1 was added, then d2, then d1 again: the order of the names is still d1
\* before d2.
C33_WitnessAgain ==
    /\ last.op = "add_datasource"
    /\ last.name = "d1"
    /\ last.count = 3
    /\ "d1" \in DOMAIN Before.project_config.datasources
    /\ key_order = <<"d1", "d2">>

-----------------------------------------------------------------------------
(* The delimiter of a context: its constructor and its property setter *)

\* The setter of data_asset_name_delimiter, lines 473-479: a delimiter that
\* is not allowed raises and sets nothing.
set_data_asset_name_delimiter(c, new_delimiter) ==
    IF new_delimiter \notin ALLOWED_DELIMITERS
    THEN Raise(c, "DataContextError")
    ELSE Ok(c, None)

context_set_data_asset_name_delimiter ==
    /\ ctx_pc = "ready"
    /\ \E new_delimiter \in AllDelimiters :
         /\ CallEndedAs(set_data_asset_name_delimiter(Context, new_delimiter),
                        "set_data_asset_name_delimiter", "", Some(new_delimiter), FALSE)
         /\ self_data_asset_name_delimiter' =
               IF last'.error = "none" THEN Some(new_delimiter)
               ELSE self_data_asset_name_delimiter
    /\ UNCHANGED <<ctx_pc, file_backed, as_given, key_order, active_environment_name>>

\* The construction of a context with any delimiter.
context_init_delimited ==
    /\ ctx_pc = "off" \/ file_backed
    /\ yml # None
    /\ construct_context(AllDelimiters)

DelimiterInit == ContextInit

DelimiterNext ==
    \/ context_init_delimited
    \/ context_set_data_asset_name_delimiter

DelimiterSpec == DelimiterInit /\ [][DelimiterNext]_vars

\* The part of C34 that holds: a context that is ready has the delimiter '.'
\* or '/', the one its constructor or the last accepted set gave it; the
\* constructor and the setter raise DataContextError for any other value, and
\* the setter then leaves the delimiter and everything else as it was.
C34_DelimiterAllowed ==
    /\ ctx_pc = "ready" =>
          /\ self_data_asset_name_delimiter # None
          /\ self_data_asset_name_delimiter[1] \in ALLOWED_DELIMITERS
    /\ (last.op = "init" /\ last.config[1] \notin ALLOWED_DELIMITERS) =>
          /\ last.error # "none"
          /\ ctx_pc = "failed"
    /\ (last.op = "init" /\ last.error = "none") =>
          self_data_asset_name_delimiter = last.config
    /\ last.op = "set_data_asset_name_delimiter" =>
          /\ ContextUnchanged
          /\ IF last.config[1] \in ALLOWED_DELIMITERS
             THEN last.error = "none" /\ self_data_asset_name_delimiter = last.config
             ELSE last.error = "DataContextError"

\* C34: a context that is ready has the delimiter '.' or '/'; the constructor
\* and the setter reject any other value with an error, the setter leaving
\* the delimiter as it was; and a constructor call rejected for its delimiter
\* has left great_expectations.yml and the variables files as they were.
C34_DelimiterInvariant ==
    /\ C34_DelimiterAllowed
    /\ (last.op = "init" /\ last.error = "DataContextError") =>
          /\ yml = Before.yml
          /\ variables_file = Before.variables_file

\* The setter rejected a delimiter and the context keeps the '.' it had.
C34_Witness ==
    /\ last.op = "set_data_asset_name_delimiter"
    /\ last.error = "DataContextError"
    /\ self_data_asset_name_delimiter = Some(".")

-----------------------------------------------------------------------------
(* ExplorerDataContext *)

\* The parameters of DataContext.__init__ (line 1895) as they are bound when
\* it is called with two positional arguments, as ExplorerDataContext calls
\* it (lines 2015-2018): the second goes to active_environment_name, and
\* data_asset_name_delimiter has its default.
super_init_arguments(context_root_dir, second) ==
    [context_root_dir |-> context_root_dir,
     active_environment_name |-> second,
     data_asset_name_delimiter |-> "/"]

\* ExplorerDataContext.__init__; the import of the explorer is taken to
\* succeed.
context_explorer_init ==
    /\ file_backed
    /\ yml # None
    /\ \E expectation_explorer \in BOOLEAN, data_asset_name_delimiter \in AllDelimiters :
         LET bound == super_init_arguments("root", data_asset_name_delimiter)
         IN  /\ CallEndedAs(DataContext_init(Context, bound.data_asset_name_delimiter),
                            "init", "", Some(data_asset_name_delimiter), expectation_explorer)
             /\ self_data_asset_name_delimiter' =
                   IF last'.error = "none" THEN Some(bound.data_asset_name_delimiter)
                   ELSE None
             /\ active_environment_name' =
                   IF last'.error = "none" THEN Some(bound.active_environment_name)
                   ELSE None
    /\ ctx_pc' = IF last'.error = "none" THEN "ready" ELSE "failed"
    /\ as_given' = SectionsOf(yml)
    /\ UNCHANGED <<file_backed, key_order>>

\* A project on disk with no context yet.
ExplorerInit ==
    /\ ContextInit
    /\ file_backed
    /\ yml # None

ExplorerNext == context_explorer_init

ExplorerSpec == ExplorerInit /\ [][ExplorerNext]_vars

\* C35: an ExplorerDataContext constructed with data_asset_name_delimiter = d,
\* d being '.' or '/', has the delimiter d, and its active_environment_name
\* is not the delimiter argument.
C35_ExplorerArguments ==
    (/\ last.op = "init"
     /\ last.error = "none"
     /\ last.config[1] \in ALLOWED_DELIMITERS) =>
        /\ self_data_asset_name_delimiter = last.config
        /\ active_environment_name # last.config

\* What holds: a constructed ExplorerDataContext has the delimiter '/' and
\* the delimiter argument as its active_environment_name, whatever the
\* argument is, a delimiter that is not allowed included.
C35_ExplorerArgumentsShifted ==
    (last.op = "init" /\ last.error = "none") =>
        /\ self_data_asset_name_delimiter = Some("/")
        /\ active_environment_name = last.config

-----------------------------------------------------------------------------
(* A config-only context without a directory *)

\* ConfigOnlyDataContext(project_config) with the default context_root_dir of
\* None (line 245): __init__ sets self._context_root_directory to None
\* (lines 261-264).
RootlessInit ==
    /\ ProjectInit
    /\ ~ file_backed
    /\ self_context_root_directory = None

\* The construction, and the calls that read the substituted view or load the
\* config variables.
RootlessNext ==
    \/ context_init
    \/ context_add_datasource
    \/ context_get_datasource
    \/ context_load_config_variables_file

RootlessSpec == RootlessInit /\ [][RootlessNext]_vars

\* The substituted view with every token left as it is written.
TokensLeftLiteral(c) ==
    [k \in Sections |->
        substitute_all_config_variables(Mapping(c.project_config[k]), NoVariables).v]

\* C36 (without a config_variables_file_path): in a context that has no root
\* directory and whose project config names no variables file, loading the
\* config variables yields the empty mapping and raises nothing, and the
\* substituted view is read with every token left literal; with a
\* config_variables_file_path, the constructor ends with the error of the
\* path join and no context is ready.
C36_RootlessWithoutPath ==
    /\ (ctx_pc = "ready") =>
          /\ project_config.config_variables_file_path = None
          /\ load_config_variables_file(Context) = Ok(Context, NoVariables)
          /\ get_config_with_variables_substituted(Context)
                = Ok(Context, TokensLeftLiteral(Context))
    /\ (last.op = "init" /\ Before.yml.schema_valid
            /\ Before.yml.config_variables_file_path # None) =>
          last.error = "TypeError"

\* C36: in a context that has no root directory, loading the config variables
\* yields the empty mapping and raises nothing whether or not the project
\* config has a config_variables_file_path, so that no construction and no
\* substituted-view read ends with an error of the load, and the substituted
\* view has every token left literal.
C36_RootlessHasNoVariables ==
    /\ last.error \notin {"TypeError", "IOError"}
    /\ (ctx_pc = "ready") =>
          /\ load_config_variables_file(Context) = Ok(Context, NoVariables)
          /\ get_config_with_variables_substituted(Context)
                = Ok(Context, TokensLeftLiteral(Context))

\* A context without a root directory was constructed from a config that has
\* a config_variables_file_path.
C36_Witness ==
    /\ last.op = "init"
    /\ self_context_root_directory = None
    /\ Before.yml.config_variables_file_path # None
    /\ Before.yml.schema_valid

\* A context without a root directory and without a variables file path read
\* a datasource whose config has a token.
C36_WitnessLiteral ==
    /\ last.op = "get_datasource"
    /\ last.error = "none"
    /\ ctx_pc = "ready"
    /\ self_context_root_directory = None
    /\ project_config.config_variables_file_path = None
    /\ "d1" \in DOMAIN project_config.datasources
    /\ project_config.datasources["d1"] = WithToken

-----------------------------------------------------------------------------
(* Expectation suites *)

SuiteNames == {"s1", "s2"}

\* The expectations of a suite: none, or one.
ExpectationLists == {<<>>, <<"e1">>}

\* ExpectationSuite(expectation_suite_name=name): a new suite with no
\* expectations.
ExpectationSuite(expectation_suite_name) ==
    [expectation_suite_name |-> expectation_suite_name, expectations |-> <<>>]

\* The suites a caller may hold.
Suites ==
    { [ExpectationSuite(name) EXCEPT !.expectations = expectations] :
        name \in SuiteNames, expectations \in ExpectationLists }

\* The expectations store, self.stores[self.expectations_store_name], as a
\* mapping from the name of the key to the suite: has_key, set and get.
store_has_key(suites, key) == key \in DOMAIN suites
store_set(suites, key, value) == Put(suites, key, value)
store_get(suites, key) == suites[key]

SuiteOk(suites, value) == [error |-> "none", suites |-> suites, value |-> Some(value)]
SuiteRaise(suites, error) == [error |-> error, suites |-> suites, value |-> None]

\* create_expectation_suite that stores the new suite whatever the store has.
create_expectation_suite_unguarded(suites, expectation_suite_name, overwrite_existing) ==
    LET expectation_suite == ExpectationSuite(expectation_suite_name)
        key == expectation_suite_name
    IN  SuiteOk(store_set(suites, key, expectation_suite), expectation_suite)

\* create_expectation_suite
create_expectation_suite(suites, expectation_suite_name, overwrite_existing) ==
    LET expectation_suite == ExpectationSuite(expectation_suite_name)
        key == expectation_suite_name
    IN  IF store_has_key(suites, key) /\ ~ overwrite_existing
        THEN SuiteRaise(suites, "DataContextError")
        ELSE SuiteOk(store_set(suites, key, expectation_suite), expectation_suite)

\* get_expectation_suite
get_expectation_suite(suites, expectation_suite_name) ==
    LET key == expectation_suite_name
    IN  IF store_has_key(suites, key)
        THEN SuiteOk(suites, store_get(suites, key))
        ELSE SuiteRaise(suites, "DataContextError")

\* save_expectation_suite; expectation_suite_name is None or a name.
save_expectation_suite(suites, expectation_suite, expectation_suite_name) ==
    LET key == IF expectation_suite_name = None
               THEN expectation_suite.expectation_suite_name
               ELSE expectation_suite_name[1]
    IN  [error |-> "none", suites |-> store_set(suites, key, expectation_suite),
         value |-> None]

\* A suite method returned or raised.
SuiteCallEnded(r, call, name, overwrite_existing) ==
    /\ expectations_store' = r.suites
    /\ suite_call' = [op |-> call, name |-> name,
                      overwrite_existing |-> overwrite_existing,
                      error |-> r.error, value |-> r.value,
                      before |-> expectations_store]
    /\ UNCHANGED <<storeVars, translateVars, ctorVars, substVars, yml, variables_file,
                   project_config, datasources, stores, validation_operators, instances,
                   last, frames, history, key_order, self_data_asset_name_delimiter,
                   active_environment_name, self_context_root_directory>>

suite_create_expectation_suite ==
    /\ \E expectation_suite_name \in SuiteNames, overwrite_existing \in BOOLEAN :
         SuiteCallEnded(create_expectation_suite(expectations_store, expectation_suite_name,
                                                 overwrite_existing),
                        "create_expectation_suite", expectation_suite_name,
                        overwrite_existing)
    /\ UNCHANGED <<ctx_pc, file_backed, as_given>>

suite_get_expectation_suite ==
    /\ \E expectation_suite_name \in SuiteNames :
         SuiteCallEnded(get_expectation_suite(expectations_store, expectation_suite_name),
                        "get_expectation_suite", expectation_suite_name, FALSE)
    /\ UNCHANGED <<ctx_pc, file_backed, as_given>>

suite_save_expectation_suite ==
    /\ \E expectation_suite \in Suites, expectation_suite_name \in Opt(SuiteNames) :
         SuiteCallEnded(save_expectation_suite(expectations_store, expectation_suite,
                                               expectation_suite_name),
                        "save_expectation_suite",
                        IF expectation_suite_name = None
                        THEN expectation_suite.expectation_suite_name
                        ELSE expectation_suite_name[1],
                        FALSE)
    /\ UNCHANGED <<ctx_pc, file_backed, as_given>>

\* A context whose expectations store is configured and empty.
SuiteInit ==
    /\ StoreInit
    /\ StoreConstructed
    /\ threads = <<>>
    /\ NoTranslation
    /\ NoSubstitution
    /\ NoContext

SuiteNext ==
    \/ suite_create_expectation_suite
    \/ suite_get_expectation_suite
    \/ suite_save_expectation_suite

SuiteSpec == SuiteInit /\ [][SuiteNext]_vars

\* C37: create_expectation_suite(name) without overwrite_existing, for a name
\* the expectations store has, ends with a DataContextError and the store is
\* as it was; with overwrite_existing, or for a name the store does not have,
\* it stores a new suite with no expectations under the name and leaves the
\* other suites alone, and get_expectation_suite(name) then returns that
\* suite; get_expectation_suite of a name the store does not have ends with
\* a DataContextError.
C37_CreationGuard ==
    LET name == suite_call.name
        before == suite_call.before
    IN  /\ (suite_call.op = "create_expectation_suite"
              /\ name \in DOMAIN before /\ ~ suite_call.overwrite_existing) =>
             /\ suite_call.error = "DataContextError"
             /\ expectations_store = before
        /\ (suite_call.op = "create_expectation_suite"
              /\ (name \notin DOMAIN before \/ suite_call.overwrite_existing)) =>
             /\ suite_call.error = "none"
             /\ suite_call.value = Some(ExpectationSuite(name))
             /\ expectations_store = Put(before, name, ExpectationSuite(name))
             /\ get_expectation_suite(expectations_store, name)
                   = SuiteOk(expectations_store, ExpectationSuite(name))
        /\ (suite_call.op = "get_expectation_suite") =>
             /\ expectations_store = before
             /\ IF name \in DOMAIN before
                THEN /\ suite_call.error = "none"
                     /\ suite_call.value = Some(before[name])
                ELSE suite_call.error = "DataContextError"

\* create_expectation_suite without overwrite_existing was refused for a name
\* whose stored suite has an expectation.
C37_Witness ==
    /\ suite_call.op = "create_expectation_suite"
    /\ ~ suite_call.overwrite_existing
    /\ suite_call.error = "DataContextError"
    /\ suite_call.name \in DOMAIN expectations_store
    /\ expectations_store[suite_call.name].expectations = <<"e1">>

\* create_expectation_suite with overwrite_existing replaced a suite that had
\* an expectation.
C37_WitnessOverwrite ==
    /\ suite_call.op = "create_expectation_suite"
    /\ suite_call.overwrite_existing
    /\ suite_call.name \in DOMAIN suite_call.before
    /\ suite_call.before[suite_call.name].expectations = <<"e1">>

\* get_expectation_suite was refused for a name the store does not have.
C37_WitnessNotFound ==
    /\ suite_call.op = "get_expectation_suite"
    /\ suite_call.error = "DataContextError"
    /\ expectations_store # <<>>

-----------------------------------------------------------------------------
(* get() and list() on the same store content *)

\* get() was called with all four key parts.
FullySpecified(key) == \A key_part_name \in KeyFields : key[key_part_name] # None

\* Every sequence list(datetime_begin, datetime_end) may return on the stored
\* rows: one for each order in which its query returns them.
ListResults(datetime_begin, datetime_end) ==
    { get_datetime_filtered_query_results(all_rows, datetime_begin, datetime_end) :
        all_rows \in Orderings(db) }

\* The first element of a list() result that has the key, or None.
FirstWithKey(listing, key) ==
    LET with_key == SelectSeq(listing, LAMBDA r : conditions(key, r))
    IN  IF with_key = <<>> THEN None ELSE Some(with_key[1])

\* The stored rows with the key and updated_at within the bounds.
StoredWithKey(key, datetime_begin, datetime_end) ==
    { r \in Stored : conditions(key, r) /\ InBounds(r, datetime_begin, datetime_end) }

\* The ones of them no other is more recent than.
MostRecentWithKey(key, datetime_begin, datetime_end) ==
    { r \in StoredWithKey(key, datetime_begin, datetime_end) :
        \A x \in StoredWithKey(key, datetime_begin, datetime_end) :
            x.updated_at[1] <= r.updated_at[1] }

\* C38 (as stated): a get() with a fully specified key returns None exactly
\* when no stored record has the key and an updated_at within the bounds, and
\* otherwise the first of the records with the key in the order of list()
\* with the same bounds, whichever result list() gives.
C38_GetIsFirstOfList ==
    \A t \in AllThreads :
        (Returned(t, "get") /\ FullySpecified(op[t].key)) =>
            /\ (outcome[t].value = None)
                  <=> (StoredWithKey(op[t].key, op[t].datetime_begin,
                                     op[t].datetime_end) = {})
            /\ \A listing \in ListResults(op[t].datetime_begin, op[t].datetime_end) :
                  outcome[t].value = FirstWithKey(listing, op[t].key)

\* C38: a get() with a fully specified key returns None exactly when no
\* stored record has the key and an updated_at within the bounds, inclusive
\* at both ends as in list(); otherwise it returns a record with the key
\* that a list() with the same bounds places first among the records with
\* the key, which is the one every list() places first when a single record
\* with the key has the greatest updated_at within the bounds.
C38_GetAgreesWithList ==
    \A t \in AllThreads :
        (Returned(t, "get") /\ FullySpecified(op[t].key)) =>
            LET key == op[t].key
                datetime_begin == op[t].datetime_begin
                datetime_end == op[t].datetime_end
                listings == ListResults(datetime_begin, datetime_end)
            IN  /\ (outcome[t].value = None)
                      <=> (StoredWithKey(key, datetime_begin, datetime_end) = {})
                /\ \E listing \in listings :
                      outcome[t].value = FirstWithKey(listing, key)
                /\ Cardinality(MostRecentWithKey(key, datetime_begin, datetime_end)) <= 1 =>
                      \A listing \in listings :
                          outcome[t].value = FirstWithKey(listing, key)

\* A get() with time bounds returned the more recent of two stored records of
\* its key, the one stored first.
C38_Witness ==
    \E t \in AllThreads :
        /\ Returned(t, "get")
        /\ FullySpecified(op[t].key)
        /\ op[t].datetime_begin # None
        /\ op[t].datetime_end # None
        /\ Len(db) = 2
        /\ conditions(op[t].key, db[1]) /\ conditions(op[t].key, db[2])
        /\ db[1].updated_at[1] > db[2].updated_at[1]
        /\ InBounds(db[2], op[t].datetime_begin, op[t].datetime_end)
        /\ outcome[t].value
              = Some(translate_sqlalchemy_computed_metric_model_to_business_object(db[1]))

\* A get() returned None for a key that is stored, every record of the key
\* being outside the bounds.
C38_WitnessOutOfBounds ==
    \E t \in AllThreads :
        /\ Returned(t, "get")
        /\ FullySpecified(op[t].key)
        /\ outcome[t].value = None
        /\ \E r \in Stored : conditions(op[t].key, r)

\* A get() returned one of two records of its key that have the same
\* updated_at.
C38_WitnessTie ==
    \E t \in AllThreads :
        /\ Returned(t, "get")
        /\ FullySpecified(op[t].key)
        /\ outcome[t].value # None
        /\ Cardinality(MostRecentWithKey(op[t].key, op[t].datetime_begin,
                                         op[t].datetime_end)) = 2

=============================================================================
